---- MODULE Spec2Model ----
(***************************************************************************)
(* A model of the execution-trace subsystem of the C++ step debugger:     *)
(*   - CppVisualizer, the restricted-subset interpreter of                *)
(*     server/src/index.js, with the WebSocket handlers that drive it;    *)
(*   - LogParser, the probe log parser (log-parser.js).                   *)
(*                                                                         *)
(* Source text is modelled as a sequence of lines, a line as the sequence *)
(* of its lexical tokens (strings); the regular expressions of the code   *)
(* become patterns over tokens.  JavaScript values are tagged records.    *)
(***************************************************************************)
EXTENDS Integers, Sequences, FiniteSets, TLC

(***************************************************************************)
(* JavaScript values.  A number is an integer, -0, NaN or +/-Infinity.    *)
(***************************************************************************)
IntV(n) == [t |-> "int", n |-> n, s |-> ""]
NZero == [t |-> "nzero", n |-> 0, s |-> ""]
NaN == [t |-> "nan", n |-> 0, s |-> ""]
Inf == [t |-> "inf", n |-> 0, s |-> ""]
NInf == [t |-> "ninf", n |-> 0, s |-> ""]
Undef == [t |-> "undef", n |-> 0, s |-> ""]
Text(str) == [t |-> "text", n |-> 0, s |-> str]

\* typeof v === 'number'
IsNumber(v) == v.t \in {"int", "nzero", "nan", "inf", "ninf"}
IsFinite(v) == v.t \in {"int", "nzero"}
IsZero(v) == v.t = "nzero" \/ (v.t = "int" /\ v.n = 0)
\* ToNumber: undefined becomes NaN
ToNum(v) == IF IsNumber(v) THEN v ELSE NaN
\* the sign bit of a number that is not NaN
Sgn(v) == IF v.t \in {"ninf", "nzero"} \/ (v.t = "int" /\ v.n < 0) THEN -1 ELSE 1
SignedZero(sg) == IF sg < 0 THEN NZero ELSE IntV(0)
SignedInf(sg) == IF sg < 0 THEN NInf ELSE Inf
Neg(v) ==
    CASE v.t = "inf" -> NInf
      [] v.t = "ninf" -> Inf
      [] v.t = "nzero" -> IntV(0)
      [] v.t = "int" -> IF v.n = 0 THEN NZero ELSE IntV(-v.n)
      [] OTHER -> NaN

Abs(n) == IF n < 0 THEN -n ELSE n
\* floor of the rational a / b, b # 0
TruncDiv(a, b) ==
    IF (a < 0) = (b < 0) THEN Abs(a) \div Abs(b) ELSE -(Abs(a) \div Abs(b))
FloorDiv(a, b) ==
    IF (a < 0) = (b < 0) \/ Abs(a) % Abs(b) = 0
    THEN TruncDiv(a, b)
    ELSE TruncDiv(a, b) - 1

\* a + b on JavaScript numbers
JsAdd(x, y) ==
    LET a == ToNum(x)
        b == ToNum(y)
    IN  CASE a.t = "nan" \/ b.t = "nan" -> NaN
          [] a.t = "inf" -> IF b.t = "ninf" THEN NaN ELSE Inf
          [] a.t = "ninf" -> IF b.t = "inf" THEN NaN ELSE NInf
          [] b.t \in {"inf", "ninf"} -> b
          [] OTHER ->
               IF a.n + b.n = 0
               THEN (IF a.t = "nzero" /\ b.t = "nzero" THEN NZero ELSE IntV(0))
               ELSE IntV(a.n + b.n)
JsSub(x, y) == JsAdd(x, Neg(ToNum(y)))
JsMul(x, y) ==
    LET a == ToNum(x)
        b == ToNum(y)
        sg == Sgn(a) * Sgn(b)
    IN  CASE a.t = "nan" \/ b.t = "nan" -> NaN
          [] ~IsFinite(a) \/ ~IsFinite(b) ->
               IF IsZero(a) \/ IsZero(b) THEN NaN ELSE SignedInf(sg)
          [] OTHER ->
               IF a.n * b.n = 0 THEN SignedZero(sg) ELSE IntV(a.n * b.n)
\* the quotient truncated toward zero
TruncQuotient(x, y) ==
    LET a == ToNum(x)
        b == ToNum(y)
        sg == Sgn(a) * Sgn(b)
    IN  CASE a.t = "nan" \/ b.t = "nan" -> NaN
          [] ~IsFinite(a) -> IF ~IsFinite(b) THEN NaN ELSE SignedInf(sg)
          [] ~IsFinite(b) -> SignedZero(sg)
          [] IsZero(b) -> IF IsZero(a) THEN NaN ELSE SignedInf(sg)
          [] IsZero(a) -> SignedZero(sg)
          [] OTHER -> IntV(TruncDiv(a.n, b.n))
\* Math.floor(a / b)
FloorQuotient(x, y) ==
    LET a == ToNum(x)
        b == ToNum(y)
        sg == Sgn(a) * Sgn(b)
    IN  CASE a.t = "nan" \/ b.t = "nan" -> NaN
          [] ~IsFinite(a) -> IF ~IsFinite(b) THEN NaN ELSE SignedInf(sg)
          [] ~IsFinite(b) -> SignedZero(sg)
          [] IsZero(b) -> IF IsZero(a) THEN NaN ELSE SignedInf(sg)
          [] IsZero(a) -> SignedZero(sg)
          [] OTHER -> IntV(FloorDiv(a.n, b.n))

\* the relational operators of evalCond; a comparison with NaN is false
\* except !=, and undefined equals only undefined
JsLess(x, y) ==
    LET a == ToNum(x)
        b == ToNum(y)
    IN  CASE a.t = "nan" \/ b.t = "nan" -> FALSE
          [] a.t = "inf" \/ b.t = "ninf" -> FALSE
          [] a.t = "ninf" \/ b.t = "inf" -> TRUE
          [] OTHER -> a.n < b.n
JsEq(x, y) ==
    CASE x.t = "undef" \/ y.t = "undef" -> x.t = y.t
      [] x.t = "nan" \/ y.t = "nan" -> FALSE
      [] IsFinite(x) /\ IsFinite(y) -> x.n = y.n
      [] OTHER -> x.t = y.t
JsLessEq(x, y) ==
    IF x.t = "undef" \/ y.t = "undef" THEN FALSE ELSE JsLess(x, y) \/ JsEq(x, y)

(***************************************************************************)
(* Source text.  A line is the sequence of the tokens of its trimmed      *)
(* text; white space between tokens is not represented.                   *)
(***************************************************************************)
\* the integer literals of the programs considered: -MaxLit..MaxLit and those
\* of the specification's examples; a literal token is its decimal text
MaxLit == 3
Literals == (-MaxLit..MaxLit) \cup {-7, 5, 7, 10, 20}
LitVal == [tok \in {ToString(n) : n \in Literals} |->
              CHOOSE n \in Literals : ToString(n) = tok]
\* the string literals of the programs considered, with part.slice(1, -1)
StrLit ==
    ("\"a: \"" :> "a: ") @@ ("\"x=\"" :> "x=") @@ ("\" b: \"" :> " b: ")
        @@ ("\"\\n\"" :> "\\n")
        @@ ("\"Factorial of even numbers from 5 to 1: \""
               :> "Factorial of even numbers from 5 to 1: ")
        @@ ("\"Sum of squares from 1 to 5: \"" :> "Sum of squares from 1 to 5: ")
        @@ ("\"value of a: \"" :> "value of a: ")
        @@ ("\" value of b: \"" :> " value of b: ")
        @@ ("\" value of c: \"" :> " value of c: ")
\* the tokens that match [a-zA-Z_]\w* (keywords included)
Idents ==
    {"a", "b", "d", "i", "n", "x", "zz", "int", "main", "return", "cout", "endl",
     "for", "while", "do", "if", "else", "using", "namespace", "std",
     "class", "struct", "union", "template", "vector", "sort", "constexpr",
     "Foo", "g", "p", "v", "iostream", "c", "fact", "sum"}
IsIdent(tok) == tok \in Idents
\* \d+
IsDigits(tok) == tok \in DOMAIN LitVal /\ LitVal[tok] >= 0
\* -?\d+
IsSignedDigits(tok) == tok \in DOMAIN LitVal
\* \w+
IsWord(tok) == IsIdent(tok) \/ IsDigits(tok)
parseInt(tok) == IF tok \in DOMAIN LitVal THEN IntV(LitVal[tok]) ELSE NaN
\* !isNaN(Number(tok))
IsNumeric(tok) == tok \in DOMAIN LitVal

Tok(line, k) == IF k >= 1 /\ k <= Len(line) THEN line[k] ELSE ""
\* line.includes(tok), for the one-character tokens { and }
Includes(line, tok) == \E k \in 1..Len(line) : line[k] = tok
\* line.startsWith(word) on the trimmed line
StartsWith(line, word) == Tok(line, 1) = word
\* the first position >= from that holds tok, or 0
IndexOf(line, tok, from) ==
    IF \E k \in from..Len(line) : line[k] = tok
    THEN CHOOSE k \in from..Len(line) :
            line[k] = tok /\ \A j \in from..(k - 1) : line[j] # tok
    ELSE 0
LastIndexOf(line, tok) ==
    IF \E k \in 1..Len(line) : line[k] = tok
    THEN CHOOSE k \in 1..Len(line) :
            line[k] = tok /\ \A j \in (k + 1)..Len(line) : line[j] # tok
    ELSE 0

(***************************************************************************)
(* CppVisualizer.buildAST.  lines[i] of the code is lines[i + 1] here.    *)
(***************************************************************************)
Node(type, code, body, elseBody, hasElse) ==
    [type |-> type, code |-> code, body |-> body, elseBody |-> elseBody,
     hasElse |-> hasElse, initialized |-> FALSE]

\* the brace-counting loop shared by for, while, do and if: the index it
\* stops at, and the lines pushed to the body
RECURSIVE ScanBody(_, _, _, _)
ScanBody(lines, i, braceCount, body) ==
    IF i > Len(lines)
    THEN [i |-> i, body |-> body]
    ELSE LET c1 == IF Includes(lines[i], "{") THEN braceCount + 1 ELSE braceCount
             c2 == IF Includes(lines[i], "}") THEN c1 - 1 ELSE c1
         IN  IF c2 = 0
             THEN [i |-> i, body |-> body]
             ELSE ScanBody(lines, i + 1, c2, Append(body, lines[i]))

\* i++, then `if (lines[i].includes('{')) braceCount++`, then the loop
ScanFrom(lines, i) ==
    ScanBody(lines, i, IF Includes(lines[i], "{") THEN 1 ELSE 0, <<>>)

Skipped(line) ==
    \/ line = <<>>
    \/ StartsWith(line, "//")
    \/ StartsWith(line, "#include")
    \/ StartsWith(line, "using")
    \/ (StartsWith(line, "int") /\ Tok(line, 2) = "main")

RECURSIVE buildASTFrom(_, _, _)
buildASTFrom(lines, i, ast) ==
    IF i > Len(lines)
    THEN [ok |-> TRUE, ast |-> ast]
    ELSE
    LET line == lines[i]
    IN  CASE Skipped(line) -> buildASTFrom(lines, i + 1, ast)
          [] ~Skipped(line) /\ Tok(line, 1) \in {"for", "while", "do"} ->
               \* lines[i] is undefined after the last line: a TypeError
               IF i + 1 > Len(lines)
               THEN [ok |-> FALSE, ast |-> ast]
               ELSE LET r == ScanFrom(lines, i + 1)
                        n == IF Tok(line, 1) = "do"
                             THEN Node("do-while",
                                       IF r.i <= Len(lines) THEN lines[r.i] ELSE <<>>,
                                       r.body, <<>>, FALSE)
                             ELSE Node(Tok(line, 1), line, r.body, <<>>, FALSE)
                    IN  buildASTFrom(lines, r.i + 1, Append(ast, n))
          [] ~Skipped(line) /\ Tok(line, 1) = "if" ->
               IF i + 1 > Len(lines)
               THEN [ok |-> FALSE, ast |-> ast]
               ELSE LET r == ScanFrom(lines, i + 1)
                        withElse == r.i + 1 <= Len(lines)
                                    /\ StartsWith(lines[r.i + 1], "else")
                    IN  IF ~withElse
                        THEN buildASTFrom(lines, r.i + 1,
                                 Append(ast, Node("if", line, r.body, <<>>, FALSE)))
                        ELSE IF r.i + 2 > Len(lines)
                        THEN [ok |-> FALSE, ast |-> ast]
                        ELSE LET e == ScanFrom(lines, r.i + 2)
                             IN  buildASTFrom(lines, e.i + 2,
                                     Append(ast, Node("if", line, r.body, e.body, TRUE)))
          [] OTHER -> buildASTFrom(lines, i + 1,
                          Append(ast, Node("stmt", line, <<>>, <<>>, FALSE)))

buildAST(lines) == buildASTFrom(lines, 1, <<>>)

(***************************************************************************)
(* The interpreter's variable table and its expression evaluators.        *)
(***************************************************************************)
NoVars == [k \in {} |-> Undef]
Has(vars, k) == k \in DOMAIN vars
\* vars[k], undefined when absent
Get(vars, k) == IF k \in DOMAIN vars THEN vars[k] ELSE Undef
\* a table that keeps nothing but the entry written
PutAlone(vars, k, v) == [j \in {k} |-> v]
Put(vars, k, v) == [j \in (DOMAIN vars) \cup {k} |-> IF j = k THEN v ELSE vars[j]]

\* expr.replace(op, '').trim() as a property key; text that is not one token
\* is no identifier and is kept as one opaque key
WithoutFirst(expr, op) ==
    LET k == IndexOf(expr, op, 1)
    IN  SubSeq(expr, 1, k - 1) \o SubSeq(expr, k + 1, Len(expr))
KeyOf(expr) == IF Len(expr) = 1 THEN expr[1] ELSE "<text>"

evalExpr(vars, expr) ==
    LET last == Tok(expr, Len(expr))
        first == Tok(expr, 1)
    IN  CASE last = "++" ->
               LET v == KeyOf(WithoutFirst(expr, "++"))
               IN  [vars |-> Put(vars, v, JsAdd(Get(vars, v), IntV(1))),
                    val |-> Get(vars, v)]
          [] last # "++" /\ last = "--" ->
               LET v == KeyOf(WithoutFirst(expr, "--"))
               IN  [vars |-> Put(vars, v, JsSub(Get(vars, v), IntV(1))),
                    val |-> Get(vars, v)]
          [] last \notin {"++", "--"} /\ first = "++" ->
               LET v == KeyOf(WithoutFirst(expr, "++"))
               IN  [vars |-> Put(vars, v, JsAdd(Get(vars, v), IntV(1))),
                    val |-> JsAdd(Get(vars, v), IntV(1))]
          [] last \notin {"++", "--"} /\ first = "--" ->
               LET v == KeyOf(WithoutFirst(expr, "--"))
               IN  [vars |-> Put(vars, v, JsSub(Get(vars, v), IntV(1))),
                    val |-> JsSub(Get(vars, v), IntV(1))]
          [] OTHER ->
               IF Len(expr) = 1 /\ Has(vars, expr[1])
               THEN [vars |-> vars, val |-> vars[expr[1]]]
               ELSE IF Len(expr) = 1 /\ IsNumeric(expr[1])
               THEN [vars |-> vars, val |-> parseInt(expr[1])]
               ELSE IF Len(expr) = 0
               THEN [vars |-> vars, val |-> NaN]
               ELSE [vars |-> vars, val |-> IntV(0)]

\* the tokens made of the characters < > = ! only
RelTokens == {"<", "<=", ">", ">=", "==", "!=", "=", "!", "<<", ">>"}
\* the first match of /(\w+)\s*([<>=!]+)\s*(\w+|\d+)/, or 0
CondMatch(cond) ==
    LET hit(k) == IsWord(cond[k]) /\ cond[k + 1] \in RelTokens /\ IsWord(cond[k + 2])
    IN  IF \E k \in 1..(Len(cond) - 2) : hit(k)
        THEN CHOOSE k \in 1..(Len(cond) - 2) : hit(k) /\ \A j \in 1..(k - 1) : ~hit(j)
        ELSE 0
\* variables.hasOwnProperty(w) ? variables[w] : parseInt(w)
Operand(vars, w) == IF Has(vars, w) THEN vars[w] ELSE parseInt(w)

evalCond(vars, cond) ==
    LET k == CondMatch(cond)
    IN  IF k = 0
        THEN FALSE
        ELSE LET left == Operand(vars, cond[k])
                 op == cond[k + 1]
                 right == Operand(vars, cond[k + 2])
             IN  CASE op = "<" -> JsLess(left, right)
                   [] op = "<=" -> JsLessEq(left, right)
                   [] op = ">" -> JsLess(right, left)
                   [] op = ">=" -> JsLessEq(right, left)
                   [] op = "==" -> JsEq(left, right)
                   [] op = "!=" -> ~JsEq(left, right)
                   [] OTHER -> FALSE

(***************************************************************************)
(* The patterns executeStep matches a node's text against.                *)
(***************************************************************************)
\* /^int\s+(\w+)\s*=\s*(-?\d+)/
DeclMatch(code) ==
    /\ Tok(code, 1) = "int"
    /\ IsWord(Tok(code, 2))
    /\ Tok(code, 3) = "="
    /\ IsSignedDigits(Tok(code, 4))
AssignOps == {"=", "+=", "-=", "*=", "/="}
\* /^([a-zA-Z_]\w*)\s*([+\-*/]?=)\s*([a-zA-Z_]\w*|\d+)/
AssignMatch(code) ==
    /\ IsIdent(Tok(code, 1))
    /\ Tok(code, 2) \in AssignOps
    /\ (IsIdent(Tok(code, 3)) \/ IsDigits(Tok(code, 3)))
\* code.includes('cout') && code.includes('<<')
CoutMatch(code) == Includes(code, "cout") /\ Includes(code, "<<")

\* /for\s*\(\s*(int\s+)?(\w+)\s*=\s*([^;]+);\s*([^;]+);\s*([^\)]+)\)/
ForHeader(header) ==
    LET isDecl == Tok(header, 3) = "int" /\ IsWord(Tok(header, 4)) /\ Tok(header, 5) = "="
        p == IF isDecl THEN 4 ELSE 3
        s1 == IndexOf(header, ";", p + 2)
        s2 == IF s1 = 0 THEN 0 ELSE IndexOf(header, ";", s1 + 1)
        cl == IF s2 = 0 THEN 0 ELSE IndexOf(header, ")", s2 + 1)
    IN  [ok |-> /\ Tok(header, 1) = "for" /\ Tok(header, 2) = "("
                /\ IsWord(Tok(header, p)) /\ Tok(header, p + 1) = "="
                /\ s1 > p + 2 /\ s2 > s1 + 1 /\ cl > s2 + 1,
         isDecl |-> isDecl,
         varName |-> Tok(header, p),
         start |-> SubSeq(header, p + 2, s1 - 1),
         cond |-> SubSeq(header, s1 + 1, s2 - 1),
         inc |-> SubSeq(header, s2 + 1, cl - 1)]

\* /while\s*\((.*)\)/ and /if\s*\((.*)\)/: the text between the ( after the
\* keyword and the last )
ParenCond(text, keyword) ==
    LET k == IndexOf(text, keyword, 1)
        cl == LastIndexOf(text, ")")
    IN  [ok |-> k > 0 /\ Tok(text, k + 1) = "(" /\ cl > k + 1,
         cond |-> SubSeq(text, k + 2, cl - 1)]

(***************************************************************************)
(* CppVisualizer.executeStep.  The interpreter state S is the record of   *)
(* the object's fields: variables, output, ast and stack.  The result is  *)
(* the new state, whether the call threw, and the returned step.          *)
(***************************************************************************)
Frame(type, node, root, body) ==
    [type |-> type, node |-> node, root |-> root, body |-> body, index |-> 0]
Top(stack) == stack[Len(stack)]
Pop(stack) == SubSeq(stack, 1, Len(stack) - 1)
\* frame.body.length; the root frame's body is the ast itself
BodyLen(S, frame) == IF frame.root THEN Len(S.ast) ELSE Len(frame.body)
SetTopIndex(stack, k) == [stack EXCEPT ![Len(stack)].index = k]

\* the text appended for one operand of a cout chain
CoutPart(vars, part) ==
    IF Len(part) = 1 /\ part[1] \in DOMAIN StrLit
    THEN <<Text(StrLit[part[1]])>>
    ELSE IF Len(part) = 1 /\ part[1] = "\\n"
    THEN <<Text("\n")>>
    ELSE IF Len(part) = 1 /\ Has(vars, part[1])
    THEN <<IF vars[part[1]].t = "nzero" THEN IntV(0) ELSE vars[part[1]]>>
    ELSE [k \in 1..Len(part) |-> Text(part[k])]

\* coutExpr.split('<<'), each part printed in turn
RECURSIVE CoutParts(_, _)
CoutParts(vars, expr) ==
    LET k == IndexOf(expr, "<<", 1)
    IN  IF k = 0
        THEN CoutPart(vars, expr)
        ELSE CoutPart(vars, SubSeq(expr, 1, k - 1))
                 \o CoutParts(vars, SubSeq(expr, k + 1, Len(expr)))

\* code.replace(/^cout\s*<</, '').replace(/;$/, '')
CoutExpr(code) ==
    LET c1 == IF Tok(code, 1) = "cout" /\ Tok(code, 2) = "<<"
              THEN SubSeq(code, 3, Len(code)) ELSE code
    IN  IF Tok(c1, Len(c1)) = ";" THEN SubSeq(c1, 1, Len(c1) - 1) ELSE c1

\* the value an assignment statement stores
ApplyOp(op, old, right) ==
    CASE op = "=" -> right
      [] op = "+=" -> JsAdd(old, right)
      [] op = "-=" -> JsSub(old, right)
      [] op = "*=" -> JsMul(old, right)
      [] op = "/=" -> FloorQuotient(old, right)

Branch(S, thrown, description, output) ==
    [S |-> S, thrown |-> thrown, description |-> description, output |-> output]

\* node.type === 'stmt'
ExecStmt(S, node) ==
    LET code == node.code
    IN  IF DeclMatch(code)
        THEN Branch([S EXCEPT !.variables = Put(S.variables, code[2], parseInt(code[4]))],
                    FALSE, <<"Declaring variable", code[2], "=", code[4]>>, <<>>)
        ELSE IF AssignMatch(code)
        THEN LET v == code[1]
                 op == code[2]
                 val == code[3]
                 known == Has(S.variables, val)
                 right == IF known THEN S.variables[val] ELSE parseInt(val)
             IN  IF known /\ ~IsNumber(right)
                 THEN Branch(S, TRUE, <<>>, <<>>)
                 ELSE IF ~known /\ ~IsNumeric(val)
                 THEN Branch(S, TRUE, <<>>, <<>>)
                 ELSE IF ~IsNumber(Get(S.variables, v))
                 THEN Branch(S, TRUE, <<>>, <<>>)
                 ELSE Branch([S EXCEPT !.variables =
                                 Put(S.variables, v, ApplyOp(op, S.variables[v], right))],
                             FALSE, <<v, op, val>>, <<>>)
        ELSE IF CoutMatch(code)
        THEN LET out == CoutParts(S.variables, CoutExpr(code)) \o <<Text("\n")>>
             IN  Branch([S EXCEPT !.output = S.output \o out],
                        FALSE, <<"Printing output">>, out)
        ELSE Branch(S, FALSE, <<>>, <<>>)

\* node.type === 'for'; k is the node's place in the ast
ExecFor(S, k) ==
    LET node == S.ast[k]
        m == ForHeader(node.code)
        e == evalExpr(S.variables, m.start)
        vars == IF ~m.ok THEN S.variables
                ELSE IF node.initialized THEN e.vars
                ELSE Put(e.vars, m.varName, e.val)
    IN  Branch([S EXCEPT !.variables = vars,
                         !.ast[k].initialized = m.ok \/ node.initialized,
                         !.stack = Append(S.stack, Frame("for", k, FALSE, node.body))],
               FALSE, <<"Entering for loop">>, <<>>)

ExecWhile(S, k) ==
    Branch([S EXCEPT !.stack = Append(S.stack, Frame("while", k, FALSE, S.ast[k].body))],
           FALSE, <<"Entering while loop">>, <<>>)

ExecDoWhile(S, k) ==
    Branch([S EXCEPT !.stack = Append(S.stack, Frame("do-while", k, FALSE, S.ast[k].body))],
           FALSE, <<"Entering do-while loop">>, <<>>)

ExecIf(S, k) ==
    LET node == S.ast[k]
        m == ParenCond(node.code, "if")
    IN  IF ~m.ok
        THEN Branch(S, TRUE, <<>>, <<>>)
        ELSE IF evalCond(S.variables, m.cond)
        THEN Branch([S EXCEPT !.stack = Append(S.stack, Frame("block", 0, FALSE, node.body))],
                    FALSE, <<"If branch taken">>, <<>>)
        ELSE IF node.hasElse
        THEN Branch([S EXCEPT !.stack =
                        Append(S.stack, Frame("block", 0, FALSE, node.elseBody))],
                    FALSE, <<"Else branch taken">>, <<>>)
        ELSE Branch(S, FALSE, <<"If condition false, no else">>, <<>>)

\* "Handle loop continuation for for/while/do-while"
Continuation(S) ==
    LET top == Top(S.stack)
        atEnd == top.index >= BodyLen(S, top)
        node == S.ast[top.node]
    IN  CASE top.type = "for" ->
               LET m == ForHeader(node.code)
                   vars == IF atEnd THEN evalExpr(S.variables, m.inc).vars ELSE S.variables
                   stack == IF atEnd THEN SetTopIndex(S.stack, 0) ELSE S.stack
               IN  IF ~m.ok
                   THEN [S |-> S, thrown |-> TRUE]
                   ELSE [S |-> [S EXCEPT !.variables = vars,
                                         !.stack = IF evalCond(vars, m.cond)
                                                   THEN stack ELSE Pop(stack)],
                         thrown |-> FALSE]
          [] top.type = "while" ->
               LET m == ParenCond(node.code, "while")
                   stack == IF atEnd THEN SetTopIndex(S.stack, 0) ELSE S.stack
               IN  IF ~m.ok
                   THEN [S |-> S, thrown |-> TRUE]
                   ELSE [S |-> [S EXCEPT !.stack = IF evalCond(S.variables, m.cond)
                                                   THEN stack ELSE Pop(stack)],
                         thrown |-> FALSE]
          [] top.type = "do-while" ->
               LET m == ParenCond(node.code, "while")
               IN  IF ~m.ok
                   THEN [S |-> S, thrown |-> TRUE]
                   ELSE IF ~atEnd
                   THEN [S |-> S, thrown |-> FALSE]
                   ELSE [S |-> [S EXCEPT !.stack =
                                   IF evalCond(S.variables, m.cond)
                                   THEN SetTopIndex(S.stack, 0)
                                   ELSE Pop(S.stack)],
                         thrown |-> FALSE]
          [] OTHER -> [S |-> S, thrown |-> FALSE]

\* currentLine is `node.line || 0`; buildAST gives no node a line property
\* and a body entry is a string, so node.line is undefined in every step
StepResult(done, variables, description, output) ==
    [done |-> done, currentLine |-> 0, variables |-> variables,
     description |-> description, output |-> output]
Returned(S, result) == [S |-> S, thrown |-> FALSE, result |-> result]
Thrown(S) == [S |-> S, thrown |-> TRUE, result |-> StepResult(FALSE, NoVars, <<>>, <<>>)]

\* a step returned with no output field
FinishStepSilent(b, c) ==
    IF c.thrown
    THEN Thrown(c.S)
    ELSE Returned(c.S, StepResult(c.S.stack = <<>>, c.S.variables, b.description, <<>>))
\* a step that reports done as soon as nothing is left to run
FinishStepEarly(b, c) ==
    IF c.thrown
    THEN Thrown(c.S)
    ELSE Returned(c.S,
                  StepResult(\A k \in 1..Len(c.S.stack) :
                                 c.S.stack[k].index >= BodyLen(c.S, c.S.stack[k]),
                             c.S.variables, b.description, b.output))
\* the step returned once the node's branch b and the loop continuation c
\* have run
FinishStep(b, c) ==
    IF c.thrown
    THEN Thrown(c.S)
    ELSE Returned(c.S, StepResult(c.S.stack = <<>>, c.S.variables, b.description, b.output))
AfterBranch(b) ==
    IF b.thrown
    THEN Thrown(b.S)
    ELSE CHOOSE out \in {FinishStep(b, c) : c \in {Continuation(b.S)}} : TRUE
\* the branch taken for the node at the cursor of the top frame, the cursor
\* already advanced in S1; k is the node's place in the frame's body
RunNode(S1, root, k) ==
    \* the lines of a loop or branch body are strings: no branch runs
    CASE ~root -> Branch(S1, FALSE, <<>>, <<>>)
      [] root /\ S1.ast[k].type = "stmt" -> ExecStmt(S1, S1.ast[k])
      [] root /\ S1.ast[k].type = "for" -> ExecFor(S1, k)
      [] root /\ S1.ast[k].type = "while" -> ExecWhile(S1, k)
      [] root /\ S1.ast[k].type = "do-while" -> ExecDoWhile(S1, k)
      [] root /\ S1.ast[k].type = "if" -> ExecIf(S1, k)

RECURSIVE executeStep(_)
\* `return { done: true }` with the root frame pushed again, which the code
\* does not do
ReturnDoneRestarting(S) ==
    Returned([S EXCEPT !.stack = <<Frame("block", 0, TRUE, <<>>)>>],
             StepResult(TRUE, NoVars, <<>>, <<>>))
\* `if (!this.stack.length) return { done: true };`
ReturnDone(S) == Returned(S, StepResult(TRUE, NoVars, <<>>, <<>>))
executeStep(S) ==
    IF S.stack = <<>>
    THEN ReturnDone(S)
    ELSE IF Top(S.stack).index >= BodyLen(S, Top(S.stack))
    THEN CHOOSE out \in {executeStep(T) : T \in {[S EXCEPT !.stack = Pop(S.stack)]}} : TRUE
    ELSE CHOOSE out \in
             {AfterBranch(b) :
                 b \in {RunNode([S EXCEPT !.stack = SetTopIndex(S.stack, Top(S.stack).index + 1)],
                                Top(S.stack).root, Top(S.stack).index + 1)}} : TRUE

(***************************************************************************)
(* LogParser.  The text of a probe log is the sequence of its lexical     *)
(* tokens, blanks and line terminators included, so that it can be cut at *)
(* any character: a cut inside a token leaves a strict prefix of it.      *)
(***************************************************************************)
Quote == "\""
SP == " "
NL == "\n"

\* the values JSON.parse yields, and undefined (an absent property); the
\* text of a string is the sequence of its tokens
JNum(n) == [t |-> "number", n |-> n, s |-> <<>>]
JStr(toks) == [t |-> "string", n |-> 0, s |-> toks]
JNull == [t |-> "null", n |-> 0, s |-> <<>>]
JUndefined == [t |-> "undefined", n |-> 0, s |-> <<>>]
JObject(f) == [t |-> "object", f |-> f]
\* String(v), as a template literal and a property key render v
ToText(v) ==
    CASE v.t = "string" -> v.s
      [] v.t = "number" -> <<ToString(v.n)>>
      [] v.t = "object" -> <<"[object Object]">>
      [] OTHER -> <<v.t>>
\* data.k
Field(data, k) ==
    IF data.t = "object" /\ <<k>> \in DOMAIN data.f THEN data.f[<<k>>] ELSE JUndefined

\* text.split(sep) and parts.join(sep)
RECURSIVE Split(_, _)
Split(text, sep) ==
    IF IndexOf(text, sep, 1) = 0
    THEN <<text>>
    ELSE <<SubSeq(text, 1, IndexOf(text, sep, 1) - 1)>>
            \o Split(SubSeq(text, IndexOf(text, sep, 1) + 1, Len(text)), sep)
RECURSIVE Join(_, _)
Join(parts, sep) ==
    IF Len(parts) = 0 THEN <<>>
    ELSE IF Len(parts) = 1 THEN parts[1]
    ELSE parts[1] \o <<sep>> \o Join(Tail(parts), sep)
\* text.trim()
Trim(text) ==
    LET ks == {k \in 1..Len(text) : text[k] \notin {SP, NL}}
    IN  IF ks = {}
        THEN <<>>
        ELSE SubSeq(text, CHOOSE k \in ks : \A j \in ks : k <= j,
                          CHOOSE k \in ks : \A j \in ks : k >= j)

\* The JSON grammar of the payloads considered: a number, a string, null,
\* or an object whose members hold such values.  Blanks between the tokens
\* are skipped; a string runs from a quote to the next one.
Lexeme(tok) ==
    CASE tok \in {"{", "}", ":", ","} -> [t |-> "punct", n |-> 0, s |-> <<tok>>]
      [] tok \in DOMAIN LitVal -> JNum(LitVal[tok])
      [] tok = "null" -> JNull
      [] OTHER -> [t |-> "bad", n |-> 0, s |-> <<tok>>]
RECURSIVE Lex(_, _, _)
Lex(text, i, out) ==
    IF i > Len(text) THEN [ok |-> TRUE, lexemes |-> out]
    ELSE IF text[i] = SP THEN Lex(text, i + 1, out)
    ELSE IF text[i] # Quote THEN Lex(text, i + 1, Append(out, Lexeme(text[i])))
    ELSE IF IndexOf(text, Quote, i + 1) = 0 THEN [ok |-> FALSE, lexemes |-> out]
    ELSE Lex(text, IndexOf(text, Quote, i + 1) + 1,
             Append(out, JStr(SubSeq(text, i + 1, IndexOf(text, Quote, i + 1) - 1))))
IsPunct(l, c) == l.t = "punct" /\ l.s = <<c>>
IsScalar(l) == l.t \in {"number", "string", "null"}
\* key : value , key : value ...
IsMembers(m) ==
    \/ Len(m) = 0
    \/ /\ Len(m) % 4 = 3
       /\ \A p \in 1..Len(m) :
             CASE p % 4 = 1 -> m[p].t = "string"
               [] p % 4 = 2 -> IsPunct(m[p], ":")
               [] p % 4 = 3 -> IsScalar(m[p])
               [] OTHER -> IsPunct(m[p], ",")
\* the object of the members: the last member of a name gives its value
ObjectOf(m) ==
    LET at == {p \in 1..Len(m) : p % 4 = 1}
    IN  JObject([key \in {m[p].s : p \in at} |->
                    m[(CHOOSE p \in at : m[p].s = key
                           /\ \A q \in at : q > p => m[q].s # key) + 2]])
JsonInvalid == [ok |-> FALSE, value |-> JUndefined]
ParseLexemes(ls) ==
    CASE Len(ls) = 1 /\ IsScalar(ls[1]) -> [ok |-> TRUE, value |-> ls[1]]
      [] Len(ls) >= 2 /\ IsPunct(ls[1], "{") /\ IsPunct(ls[Len(ls)], "}")
             /\ IsMembers(SubSeq(ls, 2, Len(ls) - 1)) ->
           [ok |-> TRUE, value |-> ObjectOf(SubSeq(ls, 2, Len(ls) - 1))]
      [] OTHER -> JsonInvalid
\* a parser that closes an object whose closing brace is missing
JsonParseLenient(text) ==
    LET lx == Lex(text, 1, <<>>)
    IN  IF ~lx.ok THEN JsonInvalid
        ELSE IF Len(lx.lexemes) >= 1 /\ IsPunct(lx.lexemes[1], "{")
                  /\ ~IsPunct(lx.lexemes[Len(lx.lexemes)], "}")
        THEN ParseLexemes(Append(lx.lexemes, Lexeme("}")))
        ELSE ParseLexemes(lx.lexemes)
\* JSON.parse(text): ok is FALSE where it throws a SyntaxError
JsonParse(text) ==
    LET lx == Lex(text, 1, <<>>)
    IN  IF ~lx.ok THEN JsonInvalid ELSE ParseLexemes(lx.lexemes)

\* this.variables, a Map: its entries in insertion order
MapHas(m, key) == \E k \in 1..Len(m) : m[k].key = key
MapIndex(m, key) == CHOOSE k \in 1..Len(m) : m[k].key = key
MapSet(m, key, info) ==
    IF MapHas(m, key)
    THEN [m EXCEPT ![MapIndex(m, key)].info = info]
    ELSE Append(m, [key |-> key, info |-> info])
\* the object a loop over the entries fills: a later entry of the same
\* property name overwrites an earlier one
PropertyNames(m) == {ToText(m[k].key) : k \in 1..Len(m)}
LastInfo(m, name) ==
    m[CHOOSE k \in 1..Len(m) : ToText(m[k].key) = name
          /\ \A j \in (k + 1)..Len(m) : ToText(m[j].key) # name].info
\* simpleVariables[name] = info.value, for each entry
simpleVariables(m) == [name \in PropertyNames(m) |-> LastInfo(m, name).value]
\* Object.fromEntries(this.variables)
fromEntries(m) == [name \in PropertyNames(m) |-> LastInfo(m, name)]

NoMetrics ==
    [totalSteps |-> 0, variableOperations |-> 0, controlFlowOperations |-> 0,
     ioOperations |-> 0, functionCalls |-> 0]
\* new LogParser()
NewLogParser ==
    [executionSteps |-> <<>>, variables |-> <<>>, callStack |-> <<>>, output |-> <<>>,
     executionMetrics |-> NoMetrics]
\* a reset() that leaves the call stack as it is
resetKeepingCallStack(P) == [NewLogParser EXCEPT !.callStack = P.callStack]
\* reset()
resetLogParser(P) == NewLogParser

\* an id that counts from zero
NextIdFromZero(P) == Len(P.executionSteps)
\* id: this.executionSteps.length + 1
NextId(P) == Len(P.executionSteps) + 1
Push(P, step) == [P EXCEPT !.executionSteps = Append(@, step)]

handleVariableDeclaration(P, data, now) ==
    LET vars == MapSet(P.variables, Field(data, "name"),
                       [type |-> Field(data, "type"), value |-> Field(data, "value"),
                        line |-> Field(data, "line"), declaredAt |-> NextId(P)])
    IN  [Push(P, [id |-> NextId(P), line |-> Field(data, "line"),
                  type |-> "variable_declaration",
                  variable |-> [name |-> Field(data, "name"), type |-> Field(data, "type"),
                                value |-> Field(data, "value")],
                  description |->
                      <<"Declaring ">> \o ToText(Field(data, "type")) \o <<" variable '">>
                         \o ToText(Field(data, "name")) \o <<"'">>
                         \o (IF Field(data, "value") # JStr(<<"undefined">>)
                             THEN <<" with value ">> \o ToText(Field(data, "value"))
                             ELSE <<>>),
                  timestamp |-> now,
                  variables |-> simpleVariables(vars)])
         EXCEPT !.variables = vars]

handleVariableAssignment(P, data, now) ==
    LET vars == IF MapHas(P.variables, Field(data, "name"))
                THEN MapSet(P.variables, Field(data, "name"),
                            [value |-> Field(data, "value"), line |-> Field(data, "line"),
                             lastModifiedAt |-> NextId(P)]
                               @@ P.variables[MapIndex(P.variables, Field(data, "name"))].info)
                ELSE P.variables
    IN  [Push(P, [id |-> NextId(P), line |-> Field(data, "line"),
                  type |-> "variable_assignment",
                  variable |-> [name |-> Field(data, "name"),
                                operator |-> Field(data, "operator"),
                                value |-> Field(data, "value")],
                  description |->
                      <<"Assigning ">> \o ToText(Field(data, "value")) \o <<" to variable '">>
                         \o ToText(Field(data, "name")) \o <<"' using operator '">>
                         \o ToText(Field(data, "operator")) \o <<"'">>,
                  timestamp |-> now,
                  variables |-> simpleVariables(vars)])
         EXCEPT !.variables = vars]

handleIfCondition(P, data, now) ==
    Push(P, [id |-> NextId(P), line |-> Field(data, "line"), type |-> "if_condition",
             condition |-> Field(data, "condition"),
             description |-> <<"Checking condition: ">> \o ToText(Field(data, "condition")),
             timestamp |-> now])

handleElseBranch(P, data, now) ==
    Push(P, [id |-> NextId(P), line |-> Field(data, "line"), type |-> "else_branch",
             description |-> <<"Entering else branch">>, timestamp |-> now])

handleForLoop(P, data, now) ==
    Push(P, [id |-> NextId(P), line |-> Field(data, "line"), type |-> "for_loop",
             condition |-> Field(data, "condition"),
             description |-> <<"Starting for loop: ">> \o ToText(Field(data, "condition")),
             timestamp |-> now])

handleWhileLoop(P, data, now) ==
    Push(P, [id |-> NextId(P), line |-> Field(data, "line"), type |-> "while_loop",
             condition |-> Field(data, "condition"),
             description |->
                 <<"Checking while condition: ">> \o ToText(Field(data, "condition")),
             timestamp |-> now])

handleDoWhileLoop(P, data, now) ==
    Push(P, [id |-> NextId(P), line |-> Field(data, "line"), type |-> "do_while_loop",
             description |-> <<"Executing do-while loop body">>, timestamp |-> now])

handleFunctionCall(P, data, now) ==
    Push(P, [id |-> NextId(P), line |-> Field(data, "line"), type |-> "function_call",
             function |-> [name |-> Field(data, "name"),
                           arguments |-> Field(data, "arguments")],
             description |->
                 <<"Calling function '">> \o ToText(Field(data, "name"))
                    \o <<"' with arguments: ">> \o ToText(Field(data, "arguments")),
             timestamp |-> now])

handleFunctionEnter(P, data, now) ==
    [Push(P, [id |-> NextId(P), line |-> Field(data, "line"), type |-> "function_enter",
              function |-> [name |-> Field(data, "name"),
                            returnType |-> Field(data, "returnType"),
                            parameters |-> Field(data, "parameters")],
              description |->
                  <<"Entering function '">> \o ToText(Field(data, "name")) \o <<"'">>,
              timestamp |-> now])
        EXCEPT !.callStack = Append(@, Field(data, "name"))]

handleInputOperation(P, data, now) ==
    Push(P, [id |-> NextId(P), line |-> Field(data, "line"), type |-> "input_operation",
             operation |-> Field(data, "operation"), target |-> Field(data, "target"),
             description |-> <<"Reading input using ">> \o ToText(Field(data, "operation")),
             timestamp |-> now])

handleOutputOperation(P, data, now) ==
    Push(P, [id |-> NextId(P), line |-> Field(data, "line"), type |-> "output_operation",
             operation |-> Field(data, "operation"), content |-> Field(data, "content"),
             description |-> <<"Outputting: ">> \o ToText(Field(data, "content")),
             timestamp |-> now])

handleTraceVar(P, data, now) ==
    LET vars == MapSet(P.variables, Field(data, "name"),
                       [value |-> Field(data, "value"), line |-> Field(data, "line"),
                        lastModifiedAt |-> NextId(P)])
    IN  [Push(P, [id |-> NextId(P), line |-> Field(data, "line"), type |-> "trace_var",
                  variable |-> [name |-> Field(data, "name"),
                                value |-> Field(data, "value")],
                  description |->
                      <<"Variable '">> \o ToText(Field(data, "name")) \o <<"' is now ">>
                         \o ToText(Field(data, "value")),
                  timestamp |-> now,
                  variables |-> simpleVariables(vars)])
         EXCEPT !.variables = vars]

RecordTypes ==
    {"VAR_DECL", "VAR_ASSIGN", "IF_CONDITION", "ELSE_BRANCH", "FOR_LOOP", "WHILE_LOOP",
     "DO_WHILE_LOOP", "FUNCTION_CALL", "FUNCTION_ENTER", "INPUT_OPERATION",
     "OUTPUT_OPERATION", "TRACE_VAR"}
\* the switch on the type, a piece of the line's text; every handler starts
\* by reading data.line, a TypeError when data is null
processLogEntry(P, type, data, now) ==
    IF type \notin {<<ty>> : ty \in RecordTypes} THEN [thrown |-> FALSE, P |-> P]
    ELSE IF data.t = "null" THEN [thrown |-> TRUE, P |-> P]
    ELSE [thrown |-> FALSE,
          P |-> CASE type = <<"VAR_DECL">> -> handleVariableDeclaration(P, data, now)
                  [] type = <<"VAR_ASSIGN">> -> handleVariableAssignment(P, data, now)
                  [] type = <<"IF_CONDITION">> -> handleIfCondition(P, data, now)
                  [] type = <<"ELSE_BRANCH">> -> handleElseBranch(P, data, now)
                  [] type = <<"FOR_LOOP">> -> handleForLoop(P, data, now)
                  [] type = <<"WHILE_LOOP">> -> handleWhileLoop(P, data, now)
                  [] type = <<"DO_WHILE_LOOP">> -> handleDoWhileLoop(P, data, now)
                  [] type = <<"FUNCTION_CALL">> -> handleFunctionCall(P, data, now)
                  [] type = <<"FUNCTION_ENTER">> -> handleFunctionEnter(P, data, now)
                  [] type = <<"INPUT_OPERATION">> -> handleInputOperation(P, data, now)
                  [] type = <<"OUTPUT_OPERATION">> -> handleOutputOperation(P, data, now)
                  [] OTHER -> handleTraceVar(P, data, now)]

\* the outcome of the try block of parseLogLine, j being what JSON.parse gave
TryEntry(P, type, j, now) ==
    IF ~j.ok
    THEN [thrown |-> TRUE, P |-> P]
    ELSE processLogEntry(P, type, j.value, now)
\* a destructuring that keeps the fourth field only
dataStringFirst(parts) == parts[4]
\* `const [, id, type, ...dataParts] = parts` and dataParts.join(':')
dataString(parts) == Join(SubSeq(parts, 4, Len(parts)), ":")
\* parseLogLine without its try and catch: the error leaves the function
parseLogLineUncaught(P, line, now) ==
    IF Len(Split(line, ":")) < 4
    THEN [raised |-> FALSE, P |-> P]
    ELSE CHOOSE out \in
            {[raised |-> r.thrown, P |-> r.P] :
                r \in {TryEntry(P, Split(line, ":")[3],
                                JsonParse(dataString(Split(line, ":"))),
                                now)}} : TRUE
\* parseLogLine: the catch block logs the error and returns
parseLogLine(P, line, now) ==
    IF Len(Split(line, ":")) < 4
    THEN [raised |-> FALSE, P |-> P]
    ELSE CHOOSE out \in
            {[raised |-> FALSE, P |-> r.P] :
                r \in {TryEntry(P, Split(line, ":")[3],
                                JsonParse(dataString(Split(line, ":"))),
                                now)}} : TRUE

\* the body of the loop of parseLogs
ParseLine(P, line, now) ==
    IF Tok(line, 1) = "LOG" /\ Tok(line, 2) = ":"
    THEN parseLogLine(P, line, now)
    ELSE IF Trim(line) # <<>>
    THEN [raised |-> FALSE, P |-> [P EXCEPT !.output = @ \o line \o <<NL>>]]
    ELSE [raised |-> FALSE, P |-> P]
\* the loop from line k on; an error that leaves parseLogLine ends it
RECURSIVE ParseLines(_, _, _, _)
ParseLines(P, lines, k, now) ==
    IF k > Len(lines)
    THEN [raised |-> FALSE, P |-> P]
    ELSE CHOOSE out \in
            {IF r.raised THEN r ELSE ParseLines(r.P, lines, k + 1, now) :
                r \in {ParseLine(P, lines[k], now)}} : TRUE

CountOf(P, types) ==
    Cardinality({k \in 1..Len(P.executionSteps) : P.executionSteps[k].type \in types})
calculateMetrics(P) ==
    [P EXCEPT !.executionMetrics =
        [totalSteps |-> Len(P.executionSteps),
         variableOperations |-> @.variableOperations
             + CountOf(P, {"variable_declaration", "variable_assignment"}),
         controlFlowOperations |-> @.controlFlowOperations
             + CountOf(P, {"if_condition", "else_branch", "for_loop", "while_loop",
                           "do_while_loop"}),
         ioOperations |-> @.ioOperations
             + CountOf(P, {"input_operation", "output_operation"}),
         functionCalls |-> @.functionCalls
             + CountOf(P, {"function_call", "function_enter"})]]
\* info.k, undefined when the entry has no such property
Prop(info, k) == IF k \in DOMAIN info THEN info[k] ELSE JUndefined
\* one element for each entry of this.variables, in the Map's order
createVariableHistory(P) ==
    [k \in 1..Len(P.variables) |->
        [name |-> P.variables[k].key,
         type |-> Prop(P.variables[k].info, "type"),
         initialValue |-> P.variables[k].info.value,
         declaredAt |-> Prop(P.variables[k].info, "declaredAt"),
         lastModifiedAt |->
             IF "lastModifiedAt" \in DOMAIN P.variables[k].info
             THEN P.variables[k].info.lastModifiedAt
             ELSE Prop(P.variables[k].info, "declaredAt"),
         currentValue |-> P.variables[k].info.value]]
\* the object parseLogs returns
Parsed(P) ==
    [steps |-> P.executionSteps, variables |-> fromEntries(P.variables),
     callStack |-> P.callStack, output |-> Trim(P.output), metrics |-> P.executionMetrics,
     variableHistory |-> createVariableHistory(P)]
AfterLines(r) ==
    IF r.raised
    THEN [raised |-> TRUE, P |-> r.P, parsed |-> Parsed(NewLogParser)]
    ELSE CHOOSE out \in
            {[raised |-> FALSE, P |-> Q, parsed |-> Parsed(Q)] :
                Q \in {calculateMetrics(r.P)}} : TRUE
\* parseLogs(stderr) on the parser P, the clock reading now
parseLogs(P, stderr, now) ==
    CHOOSE out \in
        {AfterLines(r) : r \in {ParseLines(resetLogParser(P), Split(stderr, NL), 1, now)}} : TRUE

(***************************************************************************)
(* The session: one WebSocket connection, its visualizer and the messages *)
(* the server has sent on it.                                             *)
(***************************************************************************)
VARIABLES
    code,        \* the program text the client submits
    visualizer,  \* session.visualizer: the CppVisualizer's fields
    present,     \* session.visualizer is not null
    preview,     \* the preview of the last visualizationReady message
    replies,     \* the messages sent in answer to the last request
    outcome,     \* how the last executeStep call of a handler ended
    server       \* "up", "hung" (a handler that never returns) or "down"

ivars == <<code, visualizer, present, preview, replies, outcome, server>>

\* The pipeline's LogParser and the side channel of the program it runs.
VARIABLES
    source,      \* the probe log the program writes when it runs to its end
    stderr,      \* executionResult.stderr: what was captured of it
    now,         \* the clock, the passes of parseLogs made so far
    logParser,   \* the fields of the LogParser
    parsed,      \* the object the last parseLogs call returned
    raised       \* the last parseLogs call ended by an error

pvars == <<source, stderr, now, logParser, parsed, raised>>

\* Two connections on the one server process.
VARIABLES
    sessions,    \* the sessions Map: for each connection its code and visualizer
                 \* and the messages sent in answer to its last request
    process,     \* the server process: "up", "hung" or "down"
    alone        \* connection A on a server that B never connected to

svars == <<sessions, process, alone>>

\* One connection and the gdb processes started for it.
VARIABLES
    connected,   \* the WebSocket of the connection is open
    listed,      \* sessions.has(sessionId)
    gdb,         \* session.gdb: 0 for null, else the number of a gdb process
    gdbWaitingForCommand,  \* session.gdbWaitingForCommand
    flights,     \* for each gdbDebug request, the callback it is waiting for
    gdbs         \* for each gdb process, how far it is

gvars == <<connected, listed, gdb, gdbWaitingForCommand, flights, gdbs>>

\* A request to the execution pipeline.
VARIABLES
    submitted,   \* the code of the request body
    endpoint,    \* the route: "execute" or "analyze"
    stage,       \* "idle", "running", "returned" or "answered"
    result,      \* the object executeWithVisualization returned
    status       \* the HTTP status of the response, 0 before it is sent

\* One run of a compiled program by the server.
VARIABLES
    path,        \* the code that runs it: "runLocally", "executeWithTimeout"
                 \* or "executeWithVisualization"
    runtime,     \* the time the program takes to exit, -1 if it never does
    elapsed,     \* the time since the program was started
    child,       \* the process: "none", "running", "exited" or "killed"
    promise,     \* the promise the caller awaits: "none", "pending", or how
                 \* it was resolved
    answered     \* the response to the request was sent

xvars == <<path, runtime, elapsed, child, promise, answered>>

\* One call of CodeInstrumenter.instrumentWithAST.
VARIABLES
    tree,               \* the nodes of the syntax tree for which walk schedules
                        \* an insertion, in the order walk visits them
    instrumentedLines   \* the lines of the text it returns, <<>> before

cvars == <<tree, instrumentedLines>>

\* Two requests in flight on one pipeline, whose CodeInstrumenter and
\* LogParser they share.
VARIABLES
    requests,    \* for each request its arguments, how far it is, the local
                 \* constants of its call and the object the call returned
    heap,        \* the arrays and objects the LogParser's fields refer to, and
                 \* have referred to: for each reference, what it holds now
    shared,      \* the fields of the CodeInstrumenter and of the LogParser; those
                 \* that hold an array or an object are references into heap
    clock        \* the events so far

qvars == <<requests, heap, shared, clock>>

\* The state of the client's App component that the step history rests on,
\* and the connection as the client sees it.
VARIABLES
    stepHistory,       \* the gdbStep messages kept
    currentStepIndex,  \* the place in stepHistory shown, from 0; -1 for none
    captured,          \* the currentStepIndex that onmessage closed over in the
                       \* render in which the effect ran
    isRunning,
    isDryRun,
    currentLine,       \* the line highlighted, 0 for null
    awaiting,          \* the gdbDebug and gdbStep requests sent and not answered
    arrived            \* the gdbStep messages received since the history was
                       \* last started afresh, in the order they came

uvars == <<stepHistory, currentStepIndex, captured, isRunning, isDryRun,
           currentLine, awaiting, arrived>>

rvars == <<submitted, endpoint, stage, result, status, xvars, cvars, qvars, uvars>>

allvars == <<ivars, pvars, svars, gvars, rvars>>

\* the gdbDebug requests of one connection
MaxDebugs == 2
Debugs == 1..MaxDebugs

GdbIdle ==
    /\ connected = FALSE
    /\ listed = FALSE
    /\ gdb = 0
    /\ gdbWaitingForCommand = FALSE
    /\ flights = [n \in Debugs |-> "none"]
    /\ gdbs = [n \in Debugs |-> "none"]

ExecutionIdle ==
    /\ path = ""
    /\ runtime = 0
    /\ elapsed = 0
    /\ child = "none"
    /\ promise = "none"
    /\ answered = FALSE

InstrumenterIdle ==
    /\ tree = <<>>
    /\ instrumentedLines = <<>>

SharedIdle ==
    /\ requests = <<>>
    /\ heap = <<>>
    /\ shared = <<>>
    /\ clock = 0

ClientIdle ==
    /\ stepHistory = <<>>
    /\ currentStepIndex = -1
    /\ captured = -1
    /\ isRunning = FALSE
    /\ isDryRun = FALSE
    /\ currentLine = 0
    /\ awaiting = 0
    /\ arrived = <<>>

RequestIdle ==
    /\ InstrumenterIdle
    /\ SharedIdle
    /\ ClientIdle
    /\ submitted = <<>>
    /\ endpoint = ""
    /\ stage = "idle"
    /\ result = <<>>
    /\ status = 0

PipelineIdle == RequestIdle /\ ExecutionIdle

TableIdle ==
    /\ sessions = <<>>
    /\ process = "up"
    /\ alone = <<>>

ParserIdle ==
    /\ source = <<>>
    /\ stderr = <<>>
    /\ now = 0
    /\ logParser = NewLogParser
    /\ parsed = Parsed(NewLogParser)
    /\ raised = FALSE

\* the longest run stepped through; a run that has not ended by then never ends
MaxRun == 30

RootFrame == Frame("block", 0, TRUE, <<>>)
\* new CppVisualizer(code): ast = [] and reset()
NewVisualizer == [variables |-> NoVars, output |-> <<>>, ast |-> <<>>, stack |-> <<RootFrame>>]
\* a reset that forgets to clear the output
resetVariables(S) == [S EXCEPT !.variables = NoVars, !.stack = <<RootFrame>>]
reset(S) == [S EXCEPT !.variables = NoVars, !.output = <<>>, !.stack = <<RootFrame>>]

\* the session of the message handlers has received nothing
SessionIdle ==
    /\ code = <<>>
    /\ visualizer = NewVisualizer
    /\ present = FALSE
    /\ preview = <<>>
    /\ replies = <<>>
    /\ outcome = "none"
    /\ server = "up"

\* parse(): the ast is built, then reset()
parse(S, lines) ==
    LET r == buildAST(lines)
    IN  [ok |-> r.ok, S |-> reset([S EXCEPT !.ast = r.ast])]

\* the do-while of getAllSteps, steps being allSteps so far and r the result
\* of the executeStep call just made
RECURSIVE RunAll(_, _, _)
RunNext(r, steps, fuel) ==
    IF r.thrown
    THEN [S |-> r.S, steps |-> steps, end |-> "thrown"]
    ELSE IF r.result.done
    THEN [S |-> r.S, steps |-> steps, end |-> "done"]
    ELSE RunAll(r.S, Append(steps, r.result), fuel - 1)
RunAll(S, steps, fuel) ==
    IF fuel = 0
    THEN [S |-> S, steps |-> steps, end |-> "never"]
    ELSE CHOOSE out \in {RunNext(r, steps, fuel) : r \in {executeStep(S)}} : TRUE

EndAll(r) == IF r.end = "done" THEN [r EXCEPT !.S = reset(r.S)] ELSE r
getAllSteps(S) == EndAll(RunAll(reset(S), <<>>, MaxRun))

\* JSON.stringify of a value: NaN and the infinities become null, -0 becomes 0
Null == [t |-> "null", n |-> 0, s |-> ""]
JsonValue(v) ==
    CASE v.t \in {"nan", "inf", "ninf"} -> Null
      [] v.t = "nzero" -> IntV(0)
      [] OTHER -> v
\* JSON.stringify of the variables object: undefined properties are left out
JsonVars(vars) ==
    [k \in {j \in DOMAIN vars : vars[j].t # "undef"} |-> JsonValue(vars[k])]
JsonStep(r) == [r EXCEPT !.variables = JsonVars(r.variables)]
JsonSteps(steps) == [k \in 1..Len(steps) |-> JsonStep(steps[k])]

Msg(type, steps, finalOutput) == [type |-> type, steps |-> steps, finalOutput |-> finalOutput]
\* the fields of a step result that a debugStep message carries
StepData(r) ==
    [currentLine |-> r.currentLine, variables |-> r.variables,
     description |-> r.description, output |-> r.output]
DebugStep(r) == Msg("debugStep", <<StepData(JsonStep(r))>>, <<>>)
DebugSteps(steps) == [k \in 1..Len(steps) |-> DebugStep(steps[k])]

(***************************************************************************)
(* The programs considered.                                               *)
(***************************************************************************)
Decl(v, n) == <<"int", v, "=", ToString(n), ";">>
Assign(v, op, rhs) == <<v, op, rhs, ";">>
Cout(parts) == <<"cout", "<<">> \o parts \o <<";">>
ForLine(init, cond, inc, tail) == <<"for", "(">> \o init \o <<";">> \o cond \o <<";">> \o inc \o <<")">> \o tail
Open == <<"{">>
Close == <<"}">>

RECURSIVE Flatten(_)
Flatten(units) == IF units = <<>> THEN <<>> ELSE Head(units) \o Flatten(Tail(units))
\* the programs made of at most n of the units, each unit a list of lines
Sequences(units, n) == UNION {[1..k -> units] : k \in 1..n}

\* int x = n; int d = m; x op rhs;
ArithPrograms ==
    {<<Decl("x", n), Decl("d", m), Assign("x", op, rhs)>> :
        n \in -MaxLit..MaxLit, m \in -MaxLit..MaxLit, op \in AssignOps, rhs \in {"d", "2", "0"}}

\* the number of statements of a straight-line program
MaxUnits == 3
StmtUnits ==
    {<<Decl("a", 10)>>, <<Decl("b", 20)>>, <<Assign("a", "+=", "b")>>,
     <<Assign("a", "=", "zz")>>, <<Cout(<<"\"a: \"", "<<", "a", "<<", "zz">>)>>,
     <<<<"int", "a", "=", "1", ",", "b", "=", "2", ";">>>>}
StmtPrograms == {Flatten(u) : u \in Sequences(StmtUnits, MaxUnits)}

ForI == ForLine(<<"int", "i", "=", "1">>, <<"i", "<=", "3">>, <<"i", "++">>, <<>>)
LoopUnits ==
    {\* for (int i = 1; i <= 3; i++) { a += i; }, the brace on the header's line
     <<ForI \o Open, Assign("a", "+=", "i"), Close>>,
     \* the same, the brace on its own line
     <<ForI, Open, Assign("a", "+=", "i"), Close>>,
     \* an initializer, a bound and an increment that name unknown variables
     <<ForLine(<<"i", "=", "zz">>, <<"i", "<", "n">>, <<"zz", "++">>, Open), Close>>,
     <<<<"if", "(", "zz", ">", "1", ")", "{">>, Assign("a", "=", "1"), Close>>,
     <<<<"if", "(", "zz", "!=", "1", ")">>, Open, Assign("a", "=", "1"), Close>>,
     <<<<"while", "(", "a", "<", "zz", ")", "{">>, Assign("a", "+=", "1"), Close>>,
     <<<<"while", "(", "a", "<", "3", ")">>, Open, Assign("a", "+=", "1"), Close>>,
     <<<<"do", "{">>, Assign("a", "+=", "1"), <<"}", "while", "(", "a", "<", "zz", ")", ";">>>>}
LoopPrograms ==
    {<<<<"int", "main", "(", ")", "{">>, Decl("a", 0)>> \o u \o w \o <<Close>> :
        u \in LoopUnits, w \in LoopUnits \cup {<<Cout(<<"a">>)>>}}

\* the division example of the specification
DivisionPrograms ==
    {<<Decl("x", n), Assign("x", "/=", "2")>> : n \in {7, -7}}

\* int a = 0; for (int i = 1; i <= 3; i++) { a += i; } with the body statement
\* on its own line, the opening brace on the header's line or on the next
ForPrograms ==
    {<<Decl("a", 0), ForI \o Open, Assign("a", "+=", "i"), Close>>,
     <<Decl("a", 0), ForI, Open, Assign("a", "+=", "i"), Close>>}

\* int a = 5; int b = 3; if (a > b) { a -= 2; } else { b /= 2; } with each
\* branch statement on its own line, in the three usual brace layouts
IfElseUnits ==
    {<<<<"if", "(", "a", ">", "b", ")", "{">>, Assign("a", "-=", "2"),
       <<"}", "else", "{">>, Assign("b", "/=", "2"), Close>>,
     <<<<"if", "(", "a", ">", "b", ")", "{">>, Assign("a", "-=", "2"), Close,
       <<"else", "{">>, Assign("b", "/=", "2"), Close>>,
     <<<<"if", "(", "a", ">", "b", ")">>, Open, Assign("a", "-=", "2"), Close,
       <<"else">>, Open, Assign("b", "/=", "2"), Close>>}
IfElsePrograms == {<<Decl("a", 5), Decl("b", 3)>> \o u : u \in IfElseUnits}

\* the programs of README.md, examples 3, 4 and 6, and the program the
\* client's editor starts with, line by line
Prelude(header) ==
    <<<<"#include", "<", header, ">">>, <<"using", "namespace", "std", ";">>, <<>>,
      <<"int", "main", "(", ")", "{">>>>
Example3 ==
    Prelude("iostream") \o
    <<<<"int", "n", "=", "5", ",", "fact", "=", "1", ";">>,
      <<"while", "(", "n", ">", "0", ")", "{">>,
      <<"if", "(", "n", "%", "2", "==", "0", ")", "{">>,
      Assign("fact", "*=", "n"),
      Close,
      <<"n", "--", ";">>,
      Close,
      Cout(<<"\"Factorial of even numbers from 5 to 1: \"", "<<", "fact", "<<", "endl">>),
      <<"return", "0", ";">>,
      Close>>
Example4 ==
    Prelude("iostream") \o
    <<<<"int", "x", "=", "1", ",", "sum", "=", "0", ";">>,
      <<"do", "{">>,
      <<"sum", "+=", "x", "*", "x", ";">>,
      <<"x", "++", ";">>,
      <<"}", "while", "(", "x", "<=", "5", ")", ";">>,
      Cout(<<"\"Sum of squares from 1 to 5: \"", "<<", "sum", "<<", "endl">>),
      <<"return", "0", ";">>,
      Close>>
Example6 ==
    Prelude("iostream") \o
    <<<<"int", "a", "=", "10", ",", "b", "=", "20", ",", "c", "=", "1", ";">>,
      ForLine(<<"int", "i", "=", "1">>, <<"i", "<=", "5">>, <<"i", "++">>, Open),
      Assign("a", "+=", "i"),
      Assign("b", "-=", "i"),
      Assign("c", "*=", "i"),
      Close,
      Cout(<<"\"value of a: \"", "<<", "a", "<<", "\" value of b: \"", "<<", "b", "<<",
             "\" value of c: \"", "<<", "c", "<<", "\"\\n\"">>),
      <<"return", "0", ";">>,
      Close>>
DefaultProgram ==
    Prelude("bits/stdc++.h") \o
    <<<<"//", "your", "code", "goes", "here">>,
      <<"int", "a", "=", "10", ",", "b", "=", "20", ";">>,
      ForLine(<<"int", "i", "=", "1">>, <<"i", "<=", "10">>, <<"i", "++">>, Open),
      Assign("a", "+=", "i"),
      Assign("b", "-=", "i"),
      Cout(<<"\"a: \"", "<<", "a", "<<", "\" b: \"", "<<", "b", "<<", "\"\\n\"">>),
      Close,
      <<"return", "0", ";">>,
      Close>>
ShippedPrograms == {Example3, Example4, Example6, DefaultProgram}

Programs ==
    ArithPrograms \cup StmtPrograms \cup LoopPrograms \cup DivisionPrograms
        \cup ForPrograms \cup IfElsePrograms \cup ShippedPrograms

(***************************************************************************)
(* The message handlers of the WebSocket connection.                      *)
(***************************************************************************)
Init ==
    /\ code \in Programs
    /\ visualizer = NewVisualizer
    /\ present = FALSE
    /\ preview = <<>>
    /\ replies = <<>>
    /\ outcome = "none"
    /\ server = "up"
    /\ ParserIdle
    /\ TableIdle
    /\ GdbIdle
    /\ PipelineIdle

\* an error thrown out of the async message callback is an unhandled
\* rejection: the process goes on or exits, depending on the runtime
Unhandled == server' \in {"up", "down"}

handleCompile ==
    /\ server = "up"
    /\ \E p \in {parse(NewVisualizer, code)} : \E g \in {getAllSteps(p.S)} :
           IF ~p.ok
           THEN /\ replies' = <<Msg("compileError", <<>>, <<>>)>>
                /\ UNCHANGED <<visualizer, present, preview, outcome, server>>
           ELSE /\ visualizer' = g.S
                /\ present' = TRUE
                /\ outcome' = g.end
                /\ server' = IF g.end = "never" THEN "hung" ELSE "up"
                /\ preview' = IF g.end = "done" THEN JsonSteps(g.steps) ELSE preview
                /\ replies' = CASE g.end = "done" ->
                                  <<Msg("compileSuccess", <<>>, <<>>),
                                    Msg("visualizationReady", JsonSteps(g.steps), <<>>)>>
                             [] g.end = "thrown" ->
                                  <<Msg("compileSuccess", <<>>, <<>>),
                                    Msg("compileError", <<>>, <<>>)>>
                             [] OTHER -> <<Msg("compileSuccess", <<>>, <<>>)>>
    /\ UNCHANGED <<code, pvars, svars, gvars, rvars>>

\* /^using\s+namespace\s+std\s*;/
UsingStd(line) ==
    Len(line) >= 4 /\ SubSeq(line, 1, 4) = <<"using", "namespace", "std", ";">>

\* the allowedPatterns of isEligibleForDryRun, tried on a trimmed line
allowedPatterns(line) ==
    \/ StartsWith(line, "#include")
    \/ UsingStd(line)
    \/ Tok(line, 1) \in {"for", "while", "if"} /\ Tok(line, 2) = "("
    \/ Tok(line, 1) = "else"
    \/ Tok(line, 1) = "int" /\ Len(line) >= 2
    \/ IsWord(Tok(line, 1)) /\ Tok(line, 2) \in AssignOps /\ IsWord(Tok(line, 3))
    \/ Tok(line, 1) = "cout" /\ Tok(line, 2) = "<<"
    \/ Tok(line, 1) = "return" /\ Len(line) >= 2
    \/ Tok(line, 1) = "}"
    \/ line = <<"{">>

\* the loop of isEligibleForDryRun over the lines, blank and comment lines
\* filtered out
RECURSIVE EligibleFrom(_, _, _)
EligibleFrom(lines, i, inMain) ==
    IF i > Len(lines)
    THEN TRUE
    ELSE LET line == lines[i]
             isMain == Tok(line, 1) = "int" /\ Tok(line, 2) = "main"
             main == inMain \/ isMain
         IN  IF line = <<>> \/ StartsWith(line, "//")
             THEN EligibleFrom(lines, i + 1, inMain)
             ELSE IF ~main /\ ~StartsWith(line, "#include") /\ ~UsingStd(line)
             THEN FALSE
             ELSE IF Tok(line, 1) = "int" /\ Len(line) >= 2 /\ ~isMain
             THEN EligibleFrom(lines, i + 1, main)
             ELSE allowedPatterns(line) /\ EligibleFrom(lines, i + 1, main)

isEligibleForDryRun(lines) == EligibleFrom(lines, 1, FALSE)

handleDryRun ==
    /\ server = "up"
    /\ IF ~isEligibleForDryRun(code)
       THEN /\ replies' = <<Msg("dryRunNotSupported", <<>>, <<>>)>>
            /\ UNCHANGED <<visualizer, present, preview, outcome, server>>
       ELSE \E p \in {parse(NewVisualizer, code)} : \E g \in {getAllSteps(p.S)} :
                IF ~p.ok
                THEN /\ replies' = <<Msg("compileError", <<>>, <<>>)>>
                     /\ UNCHANGED <<visualizer, present, preview, outcome, server>>
                ELSE /\ visualizer' = g.S
                     /\ present' = TRUE
                     /\ outcome' = g.end
                     /\ server' = IF g.end = "never" THEN "hung" ELSE "up"
                     /\ preview' = IF g.end = "done" THEN JsonSteps(g.steps) ELSE preview
                     /\ replies' = CASE g.end = "done" ->
                                       <<Msg("visualizationReady", JsonSteps(g.steps), <<>>)>>
                                  [] g.end = "thrown" -> <<Msg("compileError", <<>>, <<>>)>>
                                  [] OTHER -> <<>>
    /\ UNCHANGED <<code, pvars, svars, gvars, rvars>>

handleStart ==
    /\ server = "up"
    /\ present
    /\ visualizer' = reset(visualizer)
    /\ replies' = <<Msg("visualizationStarted", <<>>, <<>>)>>
    /\ outcome' = "none"
    /\ UNCHANGED <<code, present, preview, server, pvars, svars, gvars, rvars>>

handleStep ==
    /\ server = "up"
    /\ present
    /\ \E r \in {executeStep(visualizer)} :
           /\ visualizer' = r.S
           /\ IF r.thrown
              THEN /\ outcome' = "thrown"
                   /\ Unhandled
                   /\ replies' = <<>>
              ELSE /\ outcome' = IF r.result.done THEN "done" ELSE "returned"
                   /\ replies' = <<IF r.result.done
                                     THEN Msg("visualizationComplete", <<>>, r.S.output)
                                     ELSE DebugStep(r.result)>>
                   /\ UNCHANGED server
    /\ UNCHANGED <<code, present, preview, pvars, svars, gvars, rvars>>

handleContinue ==
    /\ server = "up"
    /\ present
    /\ \E r \in {RunAll(visualizer, <<>>, MaxRun)} :
           /\ visualizer' = r.S
           /\ outcome' = r.end
           /\ replies' = DebugSteps(r.steps) \o
                        (IF r.end = "done"
                         THEN <<Msg("visualizationComplete", <<>>, r.S.output)>>
                         ELSE <<>>)
           /\ CASE r.end = "done" -> UNCHANGED server
                [] r.end = "thrown" -> Unhandled
                [] OTHER -> server' = "hung"
    /\ UNCHANGED <<code, present, preview, pvars, svars, gvars, rvars>>

handleStop ==
    /\ server = "up"
    /\ present
    /\ visualizer' = reset(visualizer)
    /\ outcome' = "none"
    /\ replies' = <<>>
    /\ UNCHANGED <<code, present, preview, server, pvars, svars, gvars, rvars>>

Next ==
    \/ handleCompile
    \/ handleDryRun
    \/ handleStart
    \/ handleStep
    \/ handleContinue
    \/ handleStop

Spec == Init /\ [][Next]_allvars

(***************************************************************************)
(* Two connections.  Every handler looks its session up by the id of the  *)
(* connection the message came on; the Map and the process are all the   *)
(* connections share.                                                     *)
(***************************************************************************)
\* wss.on('connection'): { ws, visualizer: null, gdb: null }, with the code
\* this client submits
NewSession(text) ==
    [code |-> text, visualizer |-> NewVisualizer, present |-> FALSE, replies |-> <<>>]

\* what a handler did: the session's fields after it, the messages it sent,
\* and how it ended ("returned", "thrown" out of the handler, or "never")
Served(session, vis, isPresent, msgs, end) ==
    [session |-> [session EXCEPT !.visualizer = vis, !.present = isPresent,
                                 !.replies = msgs],
     end |-> end]
Ignored(session) == Served(session, session.visualizer, session.present, <<>>, "returned")

\* new CppVisualizer(code), parse(), getAllSteps() and the messages around
\* them, in handleCompile (announce) and handleDryRun
Visualize(session, announce) ==
    LET first == IF announce THEN <<Msg("compileSuccess", <<>>, <<>>)>> ELSE <<>>
        Reply(p, g) ==
            IF ~p.ok
            THEN Served(session, session.visualizer, session.present,
                        <<Msg("compileError", <<>>, <<>>)>>, "returned")
            ELSE CASE g.end = "done" ->
                        Served(session, g.S, TRUE,
                               first \o <<Msg("visualizationReady", JsonSteps(g.steps), <<>>)>>,
                               "returned")
                   [] g.end = "thrown" ->
                        Served(session, g.S, TRUE,
                               first \o <<Msg("compileError", <<>>, <<>>)>>, "returned")
                   [] OTHER -> Served(session, g.S, TRUE, first, "never")
    IN  CHOOSE out \in {Reply(p, getAllSteps(p.S)) : p \in {parse(NewVisualizer, session.code)}} :
            TRUE

RequestTypes == {"compile", "dryRun", "start", "step", "continue", "stop"}

\* the switch of ws.on('message') and the handler it calls
onMessage(session, type) ==
    CASE type = "compile" -> Visualize(session, TRUE)
      [] type = "dryRun" ->
           IF isEligibleForDryRun(session.code)
           THEN Visualize(session, FALSE)
           ELSE Served(session, session.visualizer, session.present,
                       <<Msg("dryRunNotSupported", <<>>, <<>>)>>, "returned")
      [] type = "start" ->
           IF ~session.present THEN Ignored(session)
           ELSE Served(session, reset(session.visualizer), TRUE,
                       <<Msg("visualizationStarted", <<>>, <<>>)>>, "returned")
      [] type = "step" ->
           IF ~session.present THEN Ignored(session)
           ELSE CHOOSE out \in
                    {IF r.thrown THEN Served(session, r.S, TRUE, <<>>, "thrown")
                     ELSE Served(session, r.S, TRUE,
                                 <<IF r.result.done
                                   THEN Msg("visualizationComplete", <<>>, r.S.output)
                                   ELSE DebugStep(r.result)>>, "returned") :
                        r \in {executeStep(session.visualizer)}} : TRUE
      [] type = "continue" ->
           IF ~session.present THEN Ignored(session)
           ELSE CHOOSE out \in
                    {Served(session, r.S, TRUE,
                            DebugSteps(r.steps) \o
                                (IF r.end = "done"
                                 THEN <<Msg("visualizationComplete", <<>>, r.S.output)>>
                                 ELSE <<>>),
                            IF r.end = "done" THEN "returned" ELSE r.end) :
                        r \in {RunAll(session.visualizer, <<>>, MaxRun)}} : TRUE
      [] type = "stop" ->
           IF ~session.present THEN Ignored(session)
           ELSE Served(session, reset(session.visualizer), TRUE, <<>>, "returned")

\* the process after a handler: a handler that never returns blocks the
\* event loop for good; an error thrown out of the async message callback
\* is an unhandled rejection, after which the process goes on (o = "up") or
\* exits (o = "down"), depending on the runtime
After(end, o) ==
    CASE end = "never" -> "hung"
      [] end = "thrown" -> o
      [] OTHER -> "up"

\* a program that runs to its end, one whose second step raises, one that
\* is eligible for a dry run, and one whose loop never ends
SessionPrograms ==
    {<<Decl("a", 10), Decl("b", 20), Assign("a", "+=", "b")>>,
     <<Decl("a", 10), Assign("a", "=", "zz"), Assign("a", "+=", "2")>>,
     <<<<"int", "main", "(", ")", "{">>, Decl("a", 0), Cout(<<"a">>), Close>>,
     <<<<"int", "main", "(", ")", "{">>, Decl("a", 0),
       <<"while", "(", "a", "<", "3", ")">>, Open, Assign("a", "+=", "1"), Close, Close>>}

Connections == {"A", "B"}

InitSessions ==
    /\ sessions \in [Connections -> {NewSession(text) : text \in SessionPrograms}]
    /\ process = "up"
    /\ alone = [session |-> sessions["A"], process |-> "up"]
    /\ SessionIdle
    /\ ParserIdle
    /\ GdbIdle
    /\ PipelineIdle

\* connection A alone: its server serves the request if it is still up
AloneServes(type, o) ==
    IF alone.process # "up"
    THEN alone
    ELSE CHOOSE out \in {[session |-> r.session, process |-> After(r.end, o)] :
                            r \in {onMessage(alone.session, type)}} : TRUE

\* a message of connection c reaches the server and its handler runs
Receive ==
    /\ process = "up"
    /\ \E c \in Connections : \E type \in RequestTypes : \E o \in {"up", "down"} :
       \E r \in {onMessage(sessions[c], type)} :
           /\ sessions' = [sessions EXCEPT ![c] = r.session]
           /\ process' = After(r.end, o)
           /\ alone' = IF c = "A" THEN AloneServes(type, o) ELSE alone
    /\ UNCHANGED <<ivars, pvars, gvars, rvars>>

\* a message that A sends to a process that is blocked or gone: no handler
\* runs for it
Unanswered ==
    /\ process # "up"
    /\ \E type \in RequestTypes : \E o \in {"up", "down"} :
           alone' = AloneServes(type, o)
    /\ UNCHANGED <<sessions, process, ivars, pvars, gvars, rvars>>

NextSessions == Receive \/ Unanswered

SpecSessions == InitSessions /\ [][NextSessions]_allvars

(***************************************************************************)
(* gdb debugging.  A gdbDebug request creates a temp file, compiles it    *)
(* and spawns gdb, each in a callback that runs later; request n spawns   *)
(* gdb process n.  A gdb process is "none" before it is spawned, then     *)
(* "running", "stopped" (at a breakpoint or after a step), "killed" (dead *)
(* or dying, its close event not yet delivered) and at last "closed".     *)
(***************************************************************************)
InitGdb ==
    /\ connected = TRUE
    /\ listed = TRUE
    /\ gdb = 0
    /\ gdbWaitingForCommand = FALSE
    /\ flights = [n \in Debugs |-> "none"]
    /\ gdbs = [n \in Debugs |-> "none"]
    /\ SessionIdle
    /\ ParserIdle
    /\ TableIdle
    /\ PipelineIdle

Alive(n) == gdbs[n] \in {"running", "stopped"}
\* child.kill(): the signal is sent to a process that has not exited yet
Kill(procs, n) == IF procs[n] \in {"running", "stopped"} THEN [procs EXCEPT ![n] = "killed"] ELSE procs

\* handleGdbDebug up to the call of tmp.file
handleGdbDebug ==
    /\ connected /\ listed
    /\ \E n \in Debugs :
           /\ flights[n] = "none"
           /\ \A m \in 1..(n - 1) : flights[m] # "none"
           /\ flights' = [flights EXCEPT ![n] = "tmpfile"]
    /\ UNCHANGED <<connected, listed, gdb, gdbWaitingForCommand, gdbs, ivars, pvars, svars, rvars>>

\* the callback of tmp.file: an error reply, or the code is written and the
\* compiler started
TmpFileCallback ==
    /\ \E n \in Debugs :
           /\ flights[n] = "tmpfile"
           /\ \E err \in BOOLEAN :
                  flights' = [flights EXCEPT ![n] = IF err THEN "done" ELSE "compile"]
    /\ UNCHANGED <<connected, listed, gdb, gdbWaitingForCommand, gdbs, ivars, pvars, svars, rvars>>

\* the callback of exec: a compile error reply, or gdb is spawned and stored
\* in the session object that handleGdbDebug looked up
CompileCallback ==
    /\ \E n \in Debugs :
           /\ flights[n] = "compile"
           /\ flights' = [flights EXCEPT ![n] = "done"]
           /\ \E compileErr \in BOOLEAN :
                  IF compileErr
                  THEN UNCHANGED <<gdb, gdbWaitingForCommand, gdbs>>
                  ELSE /\ gdbs' = [gdbs EXCEPT ![n] = "running"]
                       /\ gdb' = n
                       /\ gdbWaitingForCommand' = FALSE
    /\ UNCHANGED <<connected, listed, ivars, pvars, svars, rvars>>

\* gdb.stdout.on('data') with a *stopped record of a breakpoint or a step,
\* and the timer it sets
GdbStopped ==
    /\ \E n \in Debugs :
           /\ gdbs[n] = "running"
           /\ gdbs' = [gdbs EXCEPT ![n] = "stopped"]
    /\ gdbWaitingForCommand' = TRUE
    /\ UNCHANGED <<connected, listed, gdb, flights, ivars, pvars, svars, rvars>>

\* gdb.stdout.on('data') with *stopped,reason="exited-normally"
GdbExited ==
    /\ \E n \in Debugs :
           /\ gdbs[n] = "running"
           /\ gdbs' = Kill(gdbs, n)
    /\ gdb' = 0
    /\ gdbWaitingForCommand' = FALSE
    /\ UNCHANGED <<connected, listed, flights, ivars, pvars, svars, rvars>>

\* gdb.on('close')
GdbClosed ==
    /\ \E n \in Debugs :
           /\ gdbs[n] = "killed"
           /\ gdbs' = [gdbs EXCEPT ![n] = "closed"]
    /\ gdb' = 0
    /\ gdbWaitingForCommand' = FALSE
    /\ UNCHANGED <<connected, listed, flights, ivars, pvars, svars, rvars>>

\* handleGdbStep and handleGdbContinue: the command is written to the stdin
\* of session.gdb
handleGdbStep ==
    /\ connected /\ listed
    /\ gdb # 0 /\ gdbWaitingForCommand
    /\ gdbs' = IF gdbs[gdb] = "stopped" THEN [gdbs EXCEPT ![gdb] = "running"] ELSE gdbs
    /\ gdbWaitingForCommand' = FALSE
    /\ UNCHANGED <<connected, listed, gdb, flights, ivars, pvars, svars, rvars>>

\* handleStop: `if (session.gdb) { session.gdb.kill(); session.gdb = null; }`
\* (the visualizer of the session is null throughout)
StopGdb ==
    /\ gdbs' = IF gdb # 0 THEN Kill(gdbs, gdb) ELSE gdbs
    /\ gdb' = 0

\* a stop message
handleStopGdb ==
    /\ connected /\ listed
    /\ gdb # 0
    /\ StopGdb
    /\ UNCHANGED <<connected, listed, gdbWaitingForCommand, flights, ivars, pvars, svars, rvars>>

\* ws.on('close'): handleStop(sessionId), then sessions.delete(sessionId)
onClose ==
    /\ connected
    /\ connected' = FALSE
    /\ StopGdb
    /\ listed' = FALSE
    /\ UNCHANGED <<gdbWaitingForCommand, flights, ivars, pvars, svars, rvars>>

NextGdb ==
    \/ handleGdbDebug
    \/ TmpFileCallback
    \/ CompileCallback
    \/ GdbStopped
    \/ GdbExited
    \/ GdbClosed
    \/ handleGdbStep
    \/ handleStopGdb
    \/ onClose

SpecGdb == InitGdb /\ [][NextGdb]_allvars

(***************************************************************************)
(* The probe logs considered, and the runs of the parser on them.         *)
(***************************************************************************)
\* log_execution(id, type, data) writes one line; data is JSON.stringify of
\* an object of the record's fields
QStr(toks) == <<Quote>> \o toks \o <<Quote>>
Member(key, val) == QStr(<<key>>) \o <<":">> \o val
Payload(members) == <<"{">> \o Join(members, ",") \o <<"}">>
ProbeLine(id, type, members) ==
    <<"LOG", ":", ToString(id), ":", type, ":">> \o Payload(members)
VarDecl(name, value, line) ==
    ProbeLine(line, "VAR_DECL",
              <<Member("name", QStr(<<name>>)), Member("type", QStr(<<"int">>)),
                Member("value", <<ToString(value)>>), Member("line", <<ToString(line)>>)>>)
VarAssign(name, value, line) ==
    ProbeLine(line, "VAR_ASSIGN",
              <<Member("name", QStr(<<name>>)), Member("operator", QStr(<<"=">>)),
                Member("value", <<ToString(value)>>), Member("line", <<ToString(line)>>)>>)
TraceVar(name, value, line) ==
    ProbeLine(line, "TRACE_VAR",
              <<Member("name", QStr(<<name>>)), Member("value", <<ToString(value)>>),
                Member("line", <<ToString(line)>>)>>)
Conditional(type, line, cond) ==
    ProbeLine(line, type,
              <<Member("line", <<ToString(line)>>), Member("condition", QStr(cond))>>)
FunctionEnter(name, line) ==
    ProbeLine(line, "FUNCTION_ENTER",
              <<Member("line", <<ToString(line)>>), Member("name", QStr(<<name>>)),
                Member("returnType", QStr(<<"int">>))>>)
OutputOperation(content, line) ==
    ProbeLine(line, "OUTPUT_OPERATION",
              <<Member("line", <<ToString(line)>>), Member("operation", QStr(<<"cout">>)),
                Member("content", QStr(<<content>>))>>)

\* the lines a traced program writes: probe records and ordinary text
LogLines ==
    {VarDecl("a", 1, 1), VarAssign("a", 10, 2), VarAssign("b", 2, 2),
     TraceVar("a", 2, 3), TraceVar("b", 10, 3),
     Conditional("IF_CONDITION", 2, <<"a", ":", "b">>),
     Conditional("FOR_LOOP", 3, <<"a">>),
     FunctionEnter("main", 1), FunctionEnter("f", 2), OutputOperation("a", 3),
     <<"hi">>}
\* the number of lines of a valid log
MaxRecords == 2
LogText(lines) == Flatten([k \in DOMAIN lines |-> lines[k] \o <<NL>>])
ValidLogs == {LogText(ls) : ls \in Sequences(LogLines, MaxRecords)}

\* a strict prefix of each token of more than one character
Partial ==
    ("10" :> "1") @@
    [LOG |-> "LO", VAR_DECL |-> "VAR_", VAR_ASSIGN |-> "VAR_", TRACE_VAR |-> "TRACE",
     IF_CONDITION |-> "IF_", FOR_LOOP |-> "FOR", FUNCTION_ENTER |-> "FUNCTION_",
     OUTPUT_OPERATION |-> "OUT", name |-> "na", type |-> "t", value |-> "val",
     line |-> "li", operator |-> "oper", condition |-> "cond", returnType |-> "return",
     operation |-> "oper", content |-> "con", int |-> "in", main |-> "ma",
     cout |-> "co", hi |-> "h"]
\* the non-empty character prefixes of a text
Prefixes(text) ==
    {SubSeq(text, 1, k) : k \in 1..Len(text)}
       \cup {Append(SubSeq(text, 1, k - 1), Partial[text[k]]) :
                k \in {j \in 1..Len(text) : text[j] \in DOMAIN Partial}}

\* probe lines of fewer than four fields, or whose payload is not JSON
BadLines ==
    {<<"LOG", ":", "7">>,
     <<"LOG", ":", "7", ":", "VAR_DECL">>,
     <<"LOG", ":", "7", ":", "VAR_DECL", ":">>,
     <<"LOG", ":", "7", ":", "TRACE_VAR", ":", "oops">>,
     <<"LOG", ":", "7", ":", "VAR_ASSIGN", ":", "{">> \o Member("name", QStr(<<"a">>)),
     <<"LOG", ":", "7", ":", "FUNCTION_ENTER", ":", "{", "name", ":">>
        \o QStr(<<"main">>) \o <<"}">>}
\* the text with one such line inserted
Insertions(text) ==
    UNION {{Join(SubSeq(ls, 1, j) \o <<bad>> \o SubSeq(ls, j + 1, Len(ls)), NL) :
               j \in 0..(Len(ls) - 1), bad \in BadLines} : ls \in {Split(text, NL)}}
\* what the pipeline may capture of a run: all of the log, the log up to the
\* point where the program crashed, or the log with a damaged line in it
Captures(text) == {text} \cup Prefixes(text) \cup Insertions(text)

InitParser ==
    /\ source \in ValidLogs
    /\ stderr \in Captures(source)
    /\ now = 0
    /\ logParser = NewLogParser
    /\ parsed = Parsed(NewLogParser)
    /\ raised = FALSE
    /\ SessionIdle
    /\ TableIdle
    /\ GdbIdle
    /\ PipelineIdle

\* the passes of parseLogs considered
MaxPasses == 2

\* executeWithVisualization, step 3: this.logParser.parseLogs(stderr)
ParseLogs ==
    /\ now < MaxPasses
    /\ \E r \in {parseLogs(logParser, stderr, now + 1)} :
           /\ logParser' = r.P
           /\ raised' = r.raised
           /\ parsed' = IF r.raised THEN parsed ELSE r.parsed
    /\ now' = now + 1
    /\ UNCHANGED <<source, stderr, ivars, svars, gvars, rvars>>

\* executeWithVisualization, step 2: the program is run again and ends
\* normally, its whole log is captured
Execute ==
    /\ stderr # source
    /\ stderr' = source
    /\ UNCHANGED <<source, now, logParser, parsed, raised, ivars, svars, gvars, rvars>>

NextParser == ParseLogs \/ Execute

SpecParser == InitParser /\ [][NextParser]_allvars

(***************************************************************************)
(* ExecutionPipeline.executeWithVisualization and the routes that call    *)
(* it.  The programs considered have no string literal split over lines, *)
(* for which sanitizeCode returns the text as it is.                     *)
(***************************************************************************)
\* the header names considered that end in .h
DotH == {"stdio.h", "bits/stdc++.h"}
\* one of the forbiddenPatterns of isSimpleCode matches at token k of a line
ForbiddenAt(line, k) ==
    \/ line[k] = "#define" /\ IsWord(Tok(line, k + 1)) /\ Tok(line, k + 2) = "("
           /\ \E j \in (k + 4)..Len(line) : line[j] = ")"
    \/ line[k] = "template" /\ Tok(line, k + 1) = "<"
    \/ line[k] \in {"struct", "class", "union"} /\ IsWord(Tok(line, k + 1))
    \/ line[k] = "#include" /\ Tok(line, k + 1) = "<" /\ Tok(line, k + 2) \in DotH
           /\ Tok(line, k + 3) = ">"
    \/ line[k] \in {"->", "::"} /\ IsWord(Tok(line, k + 1))
    \/ line[k] \in {"constexpr", "decltype", "typename", "concept", "requires"}
    \/ line[k] = "#include" /\ Tok(line, k + 1) = "\"my.hpp\""
    \/ line[k] \in {"vector", "array", "set", "map", "unordered_map"} /\ Tok(line, k + 1) = "<"
    \/ line[k] \in {"sort", "reverse", "find"} /\ Tok(line, k + 1) = "("
    \/ IsWord(line[k]) /\ Tok(line, k + 1) = "[" /\ IsDigits(Tok(line, k + 2))
           /\ Tok(line, k + 3) = "]" /\ Tok(line, k + 4) = "["
           /\ IsDigits(Tok(line, k + 5)) /\ Tok(line, k + 6) = "]"

\* (buffer.match(/(?<!\\)"/g) || []).length: the quotes of the text; an
\* escaped quote is the one token \"
Quotes(text) == Cardinality({k \in 1..Len(text) : text[k] = Quote})

\* the loop of sanitizeCode from line i on, and the join of what it kept
RECURSIVE sanitizeFrom(_, _, _, _, _)
sanitizeFrom(lines, i, inString, buffer, sanitized) ==
    IF i > Len(lines)
    THEN Join(IF buffer # <<>> THEN Append(sanitized, buffer) ELSE sanitized, NL)
    ELSE CHOOSE out \in
            {IF Quotes(b) % 2 = 1
             THEN sanitizeFrom(lines, i + 1, TRUE, b, sanitized)
             ELSE sanitizeFrom(lines, i + 1, FALSE, <<>>, Append(sanitized, b)) :
                b \in {IF ~inString THEN lines[i] ELSE buffer \o <<NL>> \o lines[i]}} : TRUE
\* sanitizeCode(code), code and the result being texts
sanitizeCode(text) == sanitizeFrom(Split(text, NL), 1, FALSE, <<>>, <<>>)

\* The syntax tree of the programs considered: a declaration `int v = ...;`
\* has an init_declarator that starts at v, an assignment `v op ...;` is an
\* assignment_expression; either may run over several lines and ends on
\* the line of its semicolon.  Rows count from 0.
StartsNode(line) ==
    \/ Tok(line, 1) = "int" /\ IsIdent(Tok(line, 2)) /\ Tok(line, 3) = "="
    \/ IsIdent(Tok(line, 1)) /\ Tok(line, 2) \in AssignOps
NodeName(line) == IF Tok(line, 1) = "int" THEN line[2] ELSE line[1]
\* the line on which the statement of line i ends, q quotes into it
RECURSIVE EndLine(_, _, _)
EndLine(lines, i, q) ==
    IF i >= Len(lines) \/ ((q + Quotes(lines[i])) % 2 = 0 /\ Includes(lines[i], ";"))
    THEN i
    ELSE EndLine(lines, i + 1, q + Quotes(lines[i]))
\* the nodes that walk visits, in its order
RECURSIVE TreeNodes(_, _)
TreeNodes(lines, i) ==
    IF i > Len(lines) THEN <<>>
    ELSE IF StartsNode(lines[i])
    THEN <<[name |-> NodeName(lines[i]), startRow |-> i - 1,
            endRow |-> EndLine(lines, i, 0) - 1]>>
            \o TreeNodes(lines, EndLine(lines, i, 0) + 1)
    ELSE IF Quotes(lines[i]) % 2 = 1
    THEN TreeNodes(lines, EndLine(lines, i, 0) + 1)
    ELSE TreeNodes(lines, i + 1)

\* the number a probe carries, were it the row on which the node ends
ProbeRowAtEnd(node) == node.endRow + 1
\* `${node.startPosition.row + 1}`
ProbeRow(node) == node.startRow + 1
\* `TRACE_VAR(${varName}, ${node.startPosition.row + 1});`
Macro(node) == <<"TRACE_VAR", "(", node.name, ",", ToString(ProbeRow(node)), ")", ";">>
\* the insertions walk pushes: one for each node, at the row on which the
\* node ends
Scheduled(nodes) ==
    [k \in 1..Len(nodes) |-> [line |-> nodes[k].endRow, macro |-> Macro(nodes[k])]]
\* the insertions sorted by line from the first to the last, which the code
\* does not do
RECURSIVE sortAscending(_)
sortAscending(insertions) ==
    IF insertions = <<>> THEN <<>>
    ELSE LET m == CHOOSE k \in 1..Len(insertions) :
                     /\ \A j \in 1..Len(insertions) :
                            insertions[j].line >= insertions[k].line
                     /\ \A j \in 1..(k - 1) : insertions[j].line > insertions[k].line
         IN  <<insertions[m]>>
                 \o sortAscending(SubSeq(insertions, 1, m - 1)
                                      \o SubSeq(insertions, m + 1, Len(insertions)))
\* insertions.sort((a, b) => b.line - a.line): from the last line to the
\* first, insertions of one line in the order they were pushed
RECURSIVE sortInsertions(_)
sortInsertions(insertions) ==
    IF insertions = <<>> THEN <<>>
    ELSE LET m == CHOOSE k \in 1..Len(insertions) :
                     /\ \A j \in 1..Len(insertions) :
                            insertions[j].line <= insertions[k].line
                     /\ \A j \in 1..(k - 1) : insertions[j].line < insertions[k].line
         IN  <<insertions[m]>>
                 \o sortInsertions(SubSeq(insertions, 1, m - 1)
                                       \o SubSeq(insertions, m + 1, Len(insertions)))
\* the loop of instrumentedLines.splice(line + 1, 0, macro) from the k-th
\* insertion on
RECURSIVE Splice(_, _, _)
Splice(lines, insertions, k) ==
    IF k > Len(insertions) THEN lines
    ELSE Splice(SubSeq(lines, 1, insertions[k].line + 1) \o <<insertions[k].macro>>
                   \o SubSeq(lines, insertions[k].line + 2, Len(lines)),
                insertions, k + 1)
\* instrumentWithAST from `walk(ast)` on, nodes being those walk met
instrumentLines(lines, nodes) ==
    CHOOSE out \in
        {Splice(lines, sorted, 1) : sorted \in {sortInsertions(Scheduled(nodes))}} : TRUE
\* instrumentWithAST(code): the lines of the instrumented code
instrumentWithAST(text) ==
    CHOOSE out \in
        {instrumentLines(lines, TreeNodes(lines, 1)) : lines \in {Split(text, NL)}} : TRUE
\* the helper functions and the macro, one line for each block
Helpers == <<<<"#include", "<", "sstream", ">">>, <<"#define", "TRACE_VAR">>,
             <<"void", "log_execution">>>>
\* getCompleteInstrumentedCode: the helpers go after the last #include
LastInclude(lines) ==
    IF \E i \in 1..Len(lines) : Tok(lines[i], 1) = "#include"
    THEN CHOOSE i \in 1..Len(lines) :
            /\ Tok(lines[i], 1) = "#include"
            /\ \A j \in (i + 1)..Len(lines) : Tok(lines[j], 1) # "#include"
    ELSE 0
getCompleteInstrumentedCode(lines) ==
    SubSeq(lines, 1, LastInclude(lines)) \o Helpers
        \o SubSeq(lines, LastInclude(lines) + 1, Len(lines))

isSimpleCode(lines) ==
    ~\E i \in 1..Len(lines) : \E k \in 1..Len(lines[i]) : ForbiddenAt(lines[i], k)

Main(body) == <<<<"int", "main", "(", ")", "{">>>> \o body \o <<<<"return", "0", ";">>, Close>>
\* a declaration whose initialiser is on the next line, a string literal
\* split over two lines, and an assignment after them
SplitProgram ==
    Main(<<<<"int", "a", "=">>, <<"1", ";">>,
           <<"cout", "<<", Quote, "hi">>, <<"there", Quote, ";">>,
           Assign("a", "=", "10")>>)
PipelinePrograms ==
    {Main(<<Decl("a", 1), Assign("a", "=", "10")>>),
     <<<<"#include", "<", "iostream", ">">>>> \o Main(<<Decl("a", 1), Cout(<<"a">>)>>),
     Main(<<Decl("a", 1), <<"std", "::", "cout", "<<", "a", ";">>>>),
     <<<<"#include", "<", "stdio.h", ">">>>> \o Main(<<Decl("a", 1)>>),
     <<<<"class", "Foo", "{", "}", ";">>>> \o Main(<<Decl("a", 1)>>),
     Main(<<<<"vector", "<", "int", ">", "v", ";">>, Decl("a", 1)>>),
     Main(<<<<"int", "g", "[", "2", "]", "[", "3", "]", ";">>, Decl("a", 1)>>),
     Main(<<<<"p", "->", "x", "=", "1", ";">>>>),
     SplitProgram,
     Main(<<Decl("a", 1), <<"a", "=">>, <<"a", "+">>, <<"2", ";">>, Cout(<<"a">>)>>),
     Main(<<<<"cout", "<<", Quote, "a", "\\\"">>, <<"b", Quote, ";">>, Decl("a", 1)>>)}

\* what the compiled program writes to stderr when it runs: nothing, one
\* line, or the program's own indented messages and a blank line around a
\* probe line
\* a log of two records with, between them, a probe line whose payload is
\* not JSON, one of an unknown type and one of too few fields
SkippingLog ==
    LogText(<<VarDecl("a", 1, 1),
              <<"LOG", ":", "7", ":", "TRACE_VAR", ":", "oops">>,
              ProbeLine(7, "NOTE", <<Member("line", <<"7">>)>>),
              <<"LOG", ":", "7">>,
              TraceVar("a", 2, 3)>>)
\* a declaration, two assignments to the variable declared and one to a
\* variable that was not
AssigningLog ==
    LogText(<<VarDecl("a", 1, 1), VarAssign("a", 10, 2), VarAssign("b", 2, 2),
              VarDecl("b", 1, 1), VarAssign("a", 2, 2)>>)
PipelineLogs ==
    {<<>>} \cup {LogText(<<l>>) : l \in LogLines}
        \cup {LogText(<<<<SP, "hi">>, VarDecl("a", 1, 1), <<SP>>, <<"hi", SP>>>>),
              LogText(<<<<"hi">>, <<SP>>, <<"hi">>>>),
              SkippingLog, AssigningLog}

InitPipeline ==
    /\ submitted \in PipelinePrograms
    /\ endpoint = ""
    /\ stage = "idle"
    /\ result = <<>>
    /\ status = 0
    /\ source \in PipelineLogs
    /\ stderr = source
    /\ now = 0
    /\ logParser = NewLogParser
    /\ parsed = Parsed(NewLogParser)
    /\ raised = FALSE
    /\ SessionIdle
    /\ TableIdle
    /\ GdbIdle
    /\ ExecutionIdle
    /\ InstrumenterIdle
    /\ SharedIdle
    /\ ClientIdle

\* POST /api/execute or /api/analyze with the code: the route calls
\* executeWithVisualization, which runs up to the compiler and awaits it
Post ==
    /\ stage = "idle"
    /\ endpoint' \in {"execute", "analyze"}
    /\ stage' = "running"
    /\ UNCHANGED <<submitted, result, status, xvars, cvars, qvars, uvars, ivars, pvars, svars, gvars>>

\* a step of the trace: the parser's step with stepNumber and the timestamp
\* of calculateTimestamp, which is k * (executionTime / (k + 1)), executionTime 0
TraceStep(step, number) ==
    [f \in DOMAIN step \cup {"stepNumber", "timestamp"} |->
        CASE f = "stepNumber" -> number
          [] f = "timestamp" -> 0
          [] OTHER -> step[f]]

\* the loop of trackVariableStates from step i on.  objs holds the varInfo
\* objects created so far; currentVariables maps a name to the place of its
\* object in objs, and the variable field of an entry of variableStates is
\* such a place too: the entry and the Map hold the object itself
RECURSIVE trackFrom(_, _, _, _, _)
trackFrom(steps, i, objs, currentVariables, variableStates) ==
    IF i > Len(steps)
    THEN [objs |-> objs, variableStates |-> variableStates]
    ELSE IF steps[i].type = "variable_declaration"
    THEN LET varInfo == [name |-> steps[i].variable.name, type |-> steps[i].variable.type,
                         value |-> steps[i].variable.value, line |-> steps[i].line,
                         stepNumber |-> i]
             current == MapSet(currentVariables, steps[i].variable.name, Len(objs) + 1)
         IN  trackFrom(steps, i + 1, Append(objs, varInfo), current,
                       Append(variableStates,
                              [stepNumber |-> i, action |-> "declared",
                               variable |-> Len(objs) + 1, allVariables |-> current]))
    ELSE IF steps[i].type = "variable_assignment"
              /\ MapHas(currentVariables, steps[i].variable.name)
    THEN LET ref == currentVariables[MapIndex(currentVariables,
                                              steps[i].variable.name)].info
         IN  trackFrom(steps, i + 1,
                       [objs EXCEPT ![ref].value = steps[i].variable.value,
                                    ![ref].line = steps[i].line],
                       currentVariables,
                       Append(variableStates,
                              [stepNumber |-> i, action |-> "assigned",
                               variable |-> ref, allVariables |-> currentVariables]))
    ELSE trackFrom(steps, i + 1, objs, currentVariables, variableStates)
\* trackVariableStates(steps): the entries as they read once it has returned
trackVariableStates(steps) ==
    LET r == trackFrom(steps, 1, <<>>, <<>>, <<>>)
    IN  [k \in 1..Len(r.variableStates) |->
            [r.variableStates[k] EXCEPT
                !.variable = r.objs[@],
                !.allVariables = [j \in 1..Len(@) |-> [@[j] EXCEPT !.info = r.objs[@]]]]]

\* createExecutionTrace, without the views that analyzeControlFlow and
\* extractIOOperations derive from the steps
createExecutionTrace(executionData, exitCode) ==
    [totalSteps |-> Len(executionData.steps),
     variableStates |-> trackVariableStates(executionData.steps),
     executionTime |-> 0,
     exitCode |-> exitCode,
     steps |-> [k \in 1..Len(executionData.steps) |-> TraceStep(executionData.steps[k], k)],
     callStack |-> executionData.callStack,
     finalState |-> [variables |-> executionData.variables,
                     callStack |-> executionData.callStack,
                     output |-> executionData.output]]

\* the objects executeWithVisualization returns; instrumentedCode is the
\* lines of the code that was compiled
CompileFailed ==
    [success |-> FALSE, executionTrace |-> Null, instrumented |-> FALSE,
     instrumentedCode |-> Undef]
Caught ==
    [success |-> FALSE, executionTrace |-> Undef, instrumented |-> FALSE,
     instrumentedCode |-> Undef]
Succeeded(trace, instrumented, lines) ==
    [success |-> TRUE, executionTrace |-> trace, instrumented |-> instrumented,
     instrumentedCode |-> lines]

\* executeWithVisualization from the compiler's callback to its return:
\* the code was sanitized and, if simple, instrumented; g++ fails or the
\* program runs and exits; the instrumenter or anything else inside the try
\* block may throw
executeWithVisualization ==
    /\ stage = "running"
    /\ stage' = "returned"
    /\ \E thrown \in BOOLEAN : \E compiled \in BOOLEAN : \E exitCode \in {0, 1} :
       \E sanitized \in {sanitizeCode(Join(submitted, NL))} :
           IF thrown \/ ~compiled
           THEN /\ result' = IF thrown THEN Caught ELSE CompileFailed
                /\ UNCHANGED pvars
           ELSE IF isSimpleCode(Split(sanitized, NL))
           THEN \E r \in {parseLogs(logParser, stderr, now + 1)} :
                    /\ logParser' = r.P
                    /\ raised' = r.raised
                    /\ parsed' = IF r.raised THEN parsed ELSE r.parsed
                    /\ now' = now + 1
                    /\ result' = IF r.raised
                                 THEN Caught
                                 ELSE Succeeded(createExecutionTrace(r.parsed, exitCode), TRUE,
                                                getCompleteInstrumentedCode(
                                                    instrumentWithAST(sanitized)))
                    /\ UNCHANGED <<source, stderr>>
           ELSE /\ result' = Succeeded(Null, FALSE, Split(sanitized, NL))
                /\ UNCHANGED pvars
    /\ UNCHANGED <<submitted, endpoint, status, xvars, cvars, qvars, uvars, ivars, svars, gvars>>

\* the route answers: /api/execute sends the result as it is; /api/analyze
\* answers 400 for a failure and reads the fields of result.executionTrace,
\* a TypeError caught as a 500 when there is no trace
Respond ==
    /\ stage = "returned"
    /\ stage' = "answered"
    /\ status' = CASE endpoint = "execute" -> 200
                    [] endpoint = "analyze" /\ ~result.success -> 400
                    [] endpoint = "analyze" /\ result.success
                          /\ result.executionTrace \in {Null, Undef} -> 500
                    [] OTHER -> 200
    /\ UNCHANGED <<submitted, endpoint, result, xvars, cvars, qvars, uvars, ivars, pvars, svars, gvars>>

NextPipeline == Post \/ executeWithVisualization \/ Respond

SpecPipeline == InitPipeline /\ [][NextPipeline]_allvars

(***************************************************************************)
(* The run of the compiled program: DockerManager.runLocally and          *)
(* executeWithTimeout, which CompilationPipeline.compileAndRun reaches     *)
(* through executeCode, and the spawn of executeWithVisualization.  Time   *)
(* is counted in seconds.                                                  *)
(***************************************************************************)
\* this.maxExecutionTime = 2000, in milliseconds
maxExecutionTime == 2
\* the longest run of a program that exits, and the time observed
MaxRuntime == 4
MaxElapsed == 5
Paths == {"runLocally", "executeWithTimeout", "executeWithVisualization"}

InitExecution ==
    /\ path \in Paths
    /\ runtime \in -1..MaxRuntime
    /\ elapsed = 0
    /\ child = "none"
    /\ promise = "none"
    /\ answered = FALSE
    /\ RequestIdle
    /\ ParserIdle
    /\ SessionIdle
    /\ TableIdle
    /\ GdbIdle

\* the program exits now
ExitDue == child = "running" /\ runtime >= 0 /\ elapsed >= runtime
\* a timer of the path expires now: the timeout option of spawn in
\* runLocally, the setTimeout of executeWithTimeout; the spawn of
\* executeWithVisualization has none
TimerDue ==
    /\ elapsed >= maxExecutionTime
    /\ \/ path = "runLocally" /\ child = "running"
       \/ path = "executeWithTimeout" /\ promise = "pending"

\* spawn(...) or exec.start(...): the program starts and the caller awaits
StartProgram ==
    /\ promise = "none"
    /\ child' = "running"
    /\ promise' = "pending"
    /\ UNCHANGED <<path, runtime, elapsed, answered>>
    /\ UNCHANGED <<submitted, endpoint, stage, result, status, cvars, qvars, uvars, ivars, pvars, svars, gvars>>

\* the program cannot be started: child.on('error') of runLocally and the
\* catch of exec.start() in executeWithTimeout resolve the promise
StartFails ==
    /\ promise = "none"
    /\ path \in {"runLocally", "executeWithTimeout"}
    /\ promise' = "error"
    /\ UNCHANGED <<path, runtime, elapsed, child, answered>>
    /\ UNCHANGED <<submitted, endpoint, stage, result, status, cvars, qvars, uvars, ivars, pvars, svars, gvars>>

\* a second passes while the caller waits and nothing is due
Tick ==
    /\ promise = "pending"
    /\ elapsed < MaxElapsed
    /\ ~ExitDue
    /\ ~TimerDue
    /\ elapsed' = elapsed + 1
    /\ UNCHANGED <<path, runtime, child, promise, answered>>
    /\ UNCHANGED <<submitted, endpoint, stage, result, status, cvars, qvars, uvars, ivars, pvars, svars, gvars>>

\* the program exits: child.on('close') or stream.on('end') resolves the
\* promise, in executeWithTimeout unless hasResolved
ChildCloses ==
    /\ ExitDue
    /\ child' = "exited"
    /\ promise' = IF promise = "pending" THEN "close" ELSE promise
    /\ UNCHANGED <<path, runtime, elapsed, answered>>
    /\ UNCHANGED <<submitted, endpoint, stage, result, status, cvars, qvars, uvars, ivars, pvars, svars, gvars>>

\* runLocally: spawn's timeout option kills the child, which closes
SpawnTimeout ==
    /\ path = "runLocally"
    /\ child = "running"
    /\ elapsed >= maxExecutionTime
    /\ child' = "killed"
    /\ promise' = "close"
    /\ UNCHANGED <<path, runtime, elapsed, answered>>
    /\ UNCHANGED <<submitted, endpoint, stage, result, status, cvars, qvars, uvars, ivars, pvars, svars, gvars>>

\* executeWithTimeout: the setTimeout callback resolves with 'Execution
\* timeout' unless hasResolved
BackupTimer ==
    /\ path = "executeWithTimeout"
    /\ promise = "pending"
    /\ elapsed >= maxExecutionTime
    /\ promise' = "timeout"
    /\ UNCHANGED <<path, runtime, elapsed, child, answered>>
    /\ UNCHANGED <<submitted, endpoint, stage, result, status, cvars, qvars, uvars, ivars, pvars, svars, gvars>>

\* the awaited promise is resolved: the caller goes on to its return and
\* the route sends the response; executeCode stops the container first
Answer ==
    /\ promise \notin {"none", "pending"}
    /\ ~answered
    /\ answered' = TRUE
    /\ child' = IF path = "executeWithTimeout" /\ child = "running" THEN "killed" ELSE child
    /\ UNCHANGED <<path, runtime, elapsed, promise>>
    /\ UNCHANGED <<submitted, endpoint, stage, result, status, cvars, qvars, uvars, ivars, pvars, svars, gvars>>

NextExecution ==
    \/ StartProgram
    \/ StartFails
    \/ Tick
    \/ ChildCloses
    \/ SpawnTimeout
    \/ BackupTimer
    \/ Answer

SpecExecution == InitExecution /\ [][NextExecution]_allvars
\* the event loop runs every callback that is due
SpecExecutionLive == SpecExecution /\ WF_allvars(NextExecution)

(***************************************************************************)
(* CodeInstrumenter.instrumentWithAST on a text and the syntax tree that  *)
(* tree-sitter gives for it.  Of the tree only the init_declarator and    *)
(* assignment_expression nodes matter, in the order walk visits them: a   *)
(* node starts no earlier than the nodes visited before it, and it may    *)
(* end before, with or after them.                                        *)
(***************************************************************************)
\* the nodes of a tree
MaxNodes == 3
InstrumenterTexts ==
    {<<<<"int", "a", "=", "1", ",", "b", "=", "2", ";">>>>,
     <<<<"int", "a", "=", "1", ",", "b", "=", "2", ";">>,
       <<"a", "=", "(", "b", "=", "2">>,
       <<")", ";">>>>}
NodesOf(lines) ==
    {[name |-> v, startRow |-> r, endRow |-> e] :
        v \in {"a", "b"}, r \in 0..(Len(lines) - 1), e \in 0..(Len(lines) - 1)}
TreesOf(lines) ==
    {t \in UNION {[1..n -> {nd \in NodesOf(lines) : nd.startRow <= nd.endRow}] :
                     n \in 0..MaxNodes} :
        \A k \in 1..(Len(t) - 1) : t[k].startRow <= t[k + 1].startRow}

InitInstrumenter ==
    /\ submitted \in InstrumenterTexts
    /\ tree \in TreesOf(submitted)
    /\ instrumentedLines = <<>>
    /\ endpoint = ""
    /\ stage = "idle"
    /\ result = <<>>
    /\ status = 0
    /\ ExecutionIdle
    /\ SharedIdle
    /\ ClientIdle
    /\ ParserIdle
    /\ SessionIdle
    /\ TableIdle
    /\ GdbIdle

\* instrumentWithAST(code), code being the submitted text
InstrumentWithAST ==
    /\ instrumentedLines = <<>>
    /\ \E lines \in {Split(Join(submitted, NL), NL)} :
           instrumentedLines' = Split(Join(instrumentLines(lines, tree), NL), NL)
    /\ UNCHANGED <<tree, submitted, endpoint, stage, result, status, xvars, qvars, uvars,
                   ivars, pvars, svars, gvars>>

NextInstrumenter == InstrumentWithAST

SpecInstrumenter == InitInstrumenter /\ [][NextInstrumenter]_allvars

(***************************************************************************)
(* Two requests on one pipeline.  The requests of /api/execute call        *)
(* executionPipeline.executeWithVisualization, those of /api/compile call  *)
(* compilationPipeline.compileAndRun; each pipeline has one                *)
(* CodeInstrumenter and one LogParser.  A call runs without interruption   *)
(* from one await to the next.  The objects a call returns hold the very   *)
(* arrays and objects the LogParser's fields referred to when it ran, so   *)
(* those are kept in a heap and named by reference.                        *)
(***************************************************************************)
Callers == {1, 2}
SharedPrograms ==
    {Main(<<Decl("a", 1), Assign("a", "=", "10")>>),
     <<<<"#include", "<", "iostream", ">">>>> \o Main(<<Decl("b", 2), Cout(<<"b">>)>>),
     Main(<<<<"vector", "<", "int", ">", "v", ";">>, Decl("a", 1)>>)}
SharedLogs ==
    {<<>>,
     LogText(<<FunctionEnter("main", 1), VarDecl("a", 1, 1)>>),
     LogText(<<FunctionEnter("f", 2), FunctionEnter("main", 1)>>)}

\* what `[]`, `[]` and the literal of executionMetrics create
NewCells == <<<<>>, <<>>, NoMetrics>>
\* a reset() that empties the arrays and the metrics where they are
resetInPlace(H, P) ==
    [heap |-> [H EXCEPT ![P.executionSteps] = <<>>, ![P.callStack] = <<>>,
                        ![P.executionMetrics] = NoMetrics],
     P |-> [P EXCEPT !.variables = <<>>, !.output = <<>>]]
\* reset(): executionSteps, callStack and executionMetrics are assigned a
\* new array or object, the Map is cleared
resetFields(H, P) ==
    [heap |-> H \o NewCells,
     P |-> [P EXCEPT !.executionSteps = Len(H) + 1, !.callStack = Len(H) + 2,
                     !.executionMetrics = Len(H) + 3,
                     !.variables = <<>>, !.output = <<>>]]
\* the pass r of parseLogs made on the fields z.P, which reset() left empty
AfterPass(z, r) ==
    [raised |-> r.raised,
     heap |-> [z.heap EXCEPT ![z.P.executionSteps] = r.P.executionSteps,
                             ![z.P.callStack] = r.P.callStack,
                             ![z.P.executionMetrics] = r.P.executionMetrics],
     P |-> [z.P EXCEPT !.variables = r.P.variables, !.output = r.P.output],
     parsed |-> [steps |-> z.P.executionSteps,
                 variables |-> r.parsed.variables,
                 callStack |-> z.P.callStack,
                 output |-> r.parsed.output,
                 metrics |-> z.P.executionMetrics,
                 variableHistory |-> r.parsed.variableHistory]]
\* parseLogs(stderr) on the shared LogParser: the object returned holds the
\* references themselves
parseLogsShared(H, P, text, at) ==
    CHOOSE out \in
        {AfterPass(z, r) : z \in {resetFields(H, P)},
                           r \in {parseLogs(NewLogParser, text, at)}} : TRUE

\* JSON.stringify of what a call returned, read from the heap as it is now
Serialised(H, res) ==
    IF ~res.success THEN res
    ELSE IF res.path = "compileAndRun"
    THEN [res EXCEPT !.executionData =
             [@ EXCEPT !.steps = H[@], !.callStack = H[@], !.metrics = H[@]]]
    ELSE IF res.executionTrace = Null THEN res
    ELSE [res EXCEPT !.executionTrace =
             [@ EXCEPT !.callStack = H[@], !.finalState.callStack = H[@]]]

InitShared ==
    /\ \E p \in {"executeWithVisualization", "compileAndRun"} :
           requests \in [Callers -> {[path |-> p, code |-> c, log |-> l, pc |-> "new",
                                      calledAt |-> 0, resumedAt |-> 0, sentAt |-> 0,
                                      instrumented |-> FALSE,
                                      completeInstrumentedCode |-> <<>>,
                                      result |-> <<>>, body |-> <<>>] :
                                        c \in SharedPrograms, l \in SharedLogs}]
    /\ heap = NewCells
    /\ shared = [instrumentedCode |-> <<>>, executionSteps |-> 1, callStack |-> 2,
                 executionMetrics |-> 3, variables |-> <<>>, output |-> <<>>]
    /\ clock = 0
    /\ InstrumenterIdle
    /\ ClientIdle
    /\ submitted = <<>>
    /\ endpoint = ""
    /\ stage = "idle"
    /\ result = <<>>
    /\ status = 0
    /\ ExecutionIdle
    /\ ParserIdle
    /\ SessionIdle
    /\ TableIdle
    /\ GdbIdle

\* the call of request c up to its first await on the compiler:
\* instrument(code) and getCompleteInstrumentedCode()
Call(c) ==
    /\ requests[c].pc = "new"
    /\ clock' = clock + 1
    /\ \E text \in {IF requests[c].path = "executeWithVisualization"
                    THEN sanitizeCode(Join(requests[c].code, NL))
                    ELSE Join(requests[c].code, NL)} :
           IF requests[c].path = "compileAndRun" \/ isSimpleCode(Split(text, NL))
           THEN \E lines \in {instrumentWithAST(text)} :
                    /\ shared' = [shared EXCEPT !.instrumentedCode = lines]
                    /\ requests' = [requests EXCEPT
                           ![c].pc = "awaiting", ![c].calledAt = clock + 1,
                           ![c].instrumented = TRUE,
                           ![c].completeInstrumentedCode =
                               getCompleteInstrumentedCode(lines)]
           ELSE /\ requests' = [requests EXCEPT
                       ![c].pc = "awaiting", ![c].calledAt = clock + 1,
                       ![c].completeInstrumentedCode = Split(text, NL)]
                /\ UNCHANGED shared
    /\ UNCHANGED <<heap, submitted, endpoint, stage, result, status, xvars, cvars, uvars,
                   ivars, pvars, svars, gvars>>

\* the call of request c from the end of its program to its return: the
\* compiler failed, or the program wrote the request's log and parseLogs
\* reads it
Resume(c) ==
    /\ requests[c].pc = "awaiting"
    /\ clock' = clock + 1
    /\ \E compiled \in BOOLEAN :
           IF ~compiled
           THEN /\ requests' = [requests EXCEPT
                       ![c].pc = "returned", ![c].resumedAt = clock + 1,
                       ![c].result = [success |-> FALSE, path |-> requests[c].path]]
                /\ UNCHANGED <<heap, shared>>
           ELSE IF ~requests[c].instrumented
           THEN /\ requests' = [requests EXCEPT
                       ![c].pc = "returned", ![c].resumedAt = clock + 1,
                       ![c].result = [success |-> TRUE, path |-> requests[c].path,
                                      executionTrace |-> Null,
                                      instrumentedCode |->
                                          requests[c].completeInstrumentedCode]]
                /\ UNCHANGED <<heap, shared>>
           ELSE \E r \in {parseLogsShared(heap, shared, requests[c].log, clock + 1)} :
                    /\ heap' = r.heap
                    /\ shared' = r.P
                    /\ requests' = [requests EXCEPT
                           ![c].pc = "returned", ![c].resumedAt = clock + 1,
                           ![c].result =
                               IF r.raised
                               THEN [success |-> FALSE, path |-> requests[c].path]
                               ELSE IF requests[c].path = "compileAndRun"
                               THEN [success |-> TRUE, path |-> requests[c].path,
                                     executionData |-> r.parsed,
                                     instrumentedCode |->
                                         requests[c].completeInstrumentedCode]
                               ELSE [success |-> TRUE, path |-> requests[c].path,
                                     executionTrace |->
                                         createExecutionTrace(
                                             [r.parsed EXCEPT !.steps = r.heap[@]], 0),
                                     instrumentedCode |->
                                         requests[c].completeInstrumentedCode]]
    /\ UNCHANGED <<submitted, endpoint, stage, result, status, xvars, cvars, uvars,
                   ivars, pvars, svars, gvars>>

\* the route of request c after its await: res.json(result)
Send(c) ==
    /\ requests[c].pc = "returned"
    /\ clock' = clock + 1
    /\ requests' = [requests EXCEPT
           ![c].pc = "answered", ![c].sentAt = clock + 1,
           ![c].body = Serialised(heap, requests[c].result)]
    /\ UNCHANGED <<heap, shared, submitted, endpoint, stage, result, status, xvars,
                   cvars, uvars, ivars, pvars, svars, gvars>>

NextShared == \E c \in Callers : Call(c) \/ Resume(c) \/ Send(c)

SpecShared == InitShared /\ [][NextShared]_allvars

(***************************************************************************)
(* The client: the step history of a debug session.                       *)
(***************************************************************************)
MaxSteps == 3
MaxAwaiting == 2
MaxLine == 2

\* what parseGdbState gives a gdbStep message: currentLine is null (0 here)
\* or the line of the frame
GdbSteps == {[type |-> "gdbStep", currentLine |-> l] : l \in 0..MaxLine}

\* Array.prototype.slice(0, end)
slice(array, end) ==
    LET stop == IF end < 0 THEN Len(array) + end ELSE end
    IN  SubSeq(array, 1, IF stop > Len(array) THEN Len(array) ELSE stop)

\* the setStepHistory updater of case 'gdbStep', index being the
\* currentStepIndex the handler reads
pushStep(prev, index, data) == Append(slice(prev, index + 1), data)

\* the first render: useState's initial values; the effect runs once and
\* onmessage keeps the currentStepIndex of that render
InitClient ==
    /\ stepHistory = <<>>
    /\ currentStepIndex = -1
    /\ captured = currentStepIndex
    /\ isRunning = FALSE
    /\ isDryRun = FALSE
    /\ currentLine = 0
    /\ awaiting = 0
    /\ arrived = <<>>
    /\ submitted = <<>> /\ endpoint = "" /\ stage = "idle" /\ result = <<>>
    /\ status = 0
    /\ ExecutionIdle /\ InstrumenterIdle /\ SharedIdle
    /\ ParserIdle /\ SessionIdle /\ TableIdle /\ GdbIdle

ClientFrame ==
    UNCHANGED <<captured, submitted, endpoint, stage, result, status, xvars, cvars,
                qvars, ivars, pvars, svars, gvars>>

\* onmessage, case 'gdbStep'
OnGdbStep(data) ==
    /\ awaiting > 0
    /\ Len(arrived) < MaxSteps
    /\ stepHistory' = pushStep(stepHistory, captured, data)
    /\ currentStepIndex' = currentStepIndex + 1
    /\ currentLine' = data.currentLine
    /\ awaiting' = awaiting - 1
    /\ arrived' = Append(arrived, data)
    /\ UNCHANGED <<isRunning, isDryRun>>
    /\ ClientFrame

\* onmessage, case 'gdbComplete': the program has exited
OnGdbComplete ==
    /\ awaiting > 0
    /\ isRunning' = FALSE
    /\ isDryRun' = FALSE
    /\ currentLine' = 0
    /\ stepHistory' = <<>>
    /\ currentStepIndex' = -1
    /\ awaiting' = 0
    /\ arrived' = <<>>
    /\ ClientFrame

\* onmessage, case 'gdbError': gdb wrote to its stderr, and runs on
OnGdbError ==
    /\ awaiting > 0
    /\ isRunning' = FALSE
    /\ isDryRun' = FALSE
    /\ currentLine' = 0
    /\ stepHistory' = <<>>
    /\ currentStepIndex' = -1
    /\ arrived' = <<>>
    /\ UNCHANGED awaiting
    /\ ClientFrame

\* handleDryRun, the button "Debug with GDB" (disabled while isRunning)
AppHandleDryRun ==
    /\ ~isRunning
    /\ isRunning' = TRUE
    /\ isDryRun' = TRUE
    /\ currentLine' = 0
    /\ stepHistory' = <<>>
    /\ currentStepIndex' = -1
    /\ awaiting' = 1
    /\ arrived' = <<>>
    /\ ClientFrame

\* handleRun, the button "Run" (disabled while isRunning)
AppHandleRun ==
    /\ ~isRunning
    /\ isRunning' = TRUE
    /\ isDryRun' = FALSE
    /\ currentLine' = 0
    /\ stepHistory' = <<>>
    /\ currentStepIndex' = -1
    /\ awaiting' = 0
    /\ arrived' = <<>>
    /\ ClientFrame

\* handleStop, the button "Stop" (disabled unless isRunning): the server
\* kills gdb
AppHandleStop ==
    /\ isRunning
    /\ isRunning' = FALSE
    /\ isDryRun' = FALSE
    /\ currentLine' = 0
    /\ stepHistory' = <<>>
    /\ currentStepIndex' = -1
    /\ awaiting' = 0
    /\ arrived' = <<>>
    /\ ClientFrame

\* handleReset, the button "Reset" (disabled while isRunning); it sends stop
AppHandleReset ==
    /\ ~isRunning
    /\ isRunning' = FALSE
    /\ isDryRun' = FALSE
    /\ currentLine' = 0
    /\ stepHistory' = <<>>
    /\ currentStepIndex' = -1
    /\ awaiting' = 0
    /\ arrived' = <<>>
    /\ ClientFrame

\* handleNext, the button "Next" (disabled unless isDryRun and isRunning)
AppHandleNext ==
    /\ isDryRun /\ isRunning
    /\ IF currentStepIndex < Len(stepHistory) - 1
       THEN \E nextStep \in {stepHistory[currentStepIndex + 2]} :
                /\ currentStepIndex' = currentStepIndex + 1
                /\ currentLine' = nextStep.currentLine
                /\ UNCHANGED awaiting
       ELSE /\ awaiting < MaxAwaiting
            /\ awaiting' = awaiting + 1
            /\ UNCHANGED <<currentStepIndex, currentLine>>
    /\ UNCHANGED <<stepHistory, isRunning, isDryRun, arrived>>
    /\ ClientFrame

NextClient ==
    \/ \E data \in GdbSteps : OnGdbStep(data)
    \/ OnGdbComplete
    \/ OnGdbError
    \/ AppHandleDryRun
    \/ AppHandleRun
    \/ AppHandleStop
    \/ AppHandleReset
    \/ AppHandleNext

SpecClient == InitClient /\ [][NextClient]_allvars

(***************************************************************************)
(* Properties of the interpreter.                                         *)
(***************************************************************************)
\* the state in which executeStep picks its node: exhausted frames popped
RECURSIVE Settle(_)
Settle(S) ==
    IF S.stack = <<>> \/ Top(S.stack).index < BodyLen(S, Top(S.stack))
    THEN S
    ELSE Settle([S EXCEPT !.stack = Pop(S.stack)])
\* the next executeStep call runs a node of the ast
AtNode(S) == Settle(S).stack # <<>> /\ Top(Settle(S).stack).root
NextNode(S) == S.ast[Top(Settle(S).stack).index + 1]
AtStmt(S) == AtNode(S) /\ NextNode(S).type = "stmt"
\* the step data of the debugStep messages among the replies
Streamed(msgs) ==
    LET ks == {k \in 1..Len(msgs) : msgs[k].type = "debugStep"}
    IN  [k \in 1..Cardinality(ks) |-> msgs[k].steps[1]]
\* the visualizer is as reset() leaves it
Fresh(S) == S.variables = NoVars /\ S.output = <<>> /\ S.stack = <<RootFrame>>
\* the two tables agree on every name but v
SameBut(vars1, vars2, v) ==
    /\ (DOMAIN vars1) \ {v} = (DOMAIN vars2) \ {v}
    /\ \A k \in (DOMAIN vars1) \ {v} : vars1[k] = vars2[k]

\* C1 (as claimed): a run streamed by start and continue repeats the preview
\* that getAllSteps computed at compile time, step for step.
C1_RerunRepeatsPreview ==
    [][(handleContinue /\ Fresh(visualizer) /\ preview # <<>>)
          => (outcome' = "done"
              /\ Streamed(replies') = [k \in 1..Len(preview) |-> StepData(preview[k])])]_ivars

\* the variable a declaration or assignment step names in its description
DeclStep(step) == Len(step.description) = 4 /\ step.description[1] = "Declaring variable"
AssignStep(step) == Len(step.description) = 3 /\ step.description[2] \in AssignOps
Target(step) == IF DeclStep(step) THEN step.description[2] ELSE step.description[1]

\* C4: a step that executes a declaration or an assignment of v reports a
\* snapshot that differs from the variable table before the step (the
\* snapshot of the previous step) in v only; `int a = 10; int b = 20;` gives
\* the snapshots {a:10} and {a:10, b:20}.
C4_StateDelta ==
    /\ [][(handleStep /\ outcome' = "returned"
              /\ (DeclStep(replies'[1].steps[1]) \/ AssignStep(replies'[1].steps[1])))
            => /\ SameBut(replies'[1].steps[1].variables, JsonVars(visualizer.variables),
                          Target(replies'[1].steps[1]))
               /\ Target(replies'[1].steps[1]) \in DOMAIN visualizer'.variables]_ivars
    /\ []((code = <<Decl("a", 10), Decl("b", 20)>> /\ preview # <<>>)
            => /\ Len(preview) = 2
               /\ preview[1].variables = [k \in {"a"} |-> IntV(10)]
               /\ preview[2].variables =
                      [k \in {"a", "b"} |-> IF k = "a" THEN IntV(10) ELSE IntV(20)])
C4_Witness ==
    /\ Len(replies) = 1 /\ replies[1].type = "debugStep"
    /\ replies[1].steps[1].description = <<"a", "+=", "b">>
    /\ replies[1].steps[1].variables =
           [k \in {"a", "b"} |-> IF k = "a" THEN IntV(30) ELSE IntV(20)]

\* C7 (as claimed): after a step() call has raised, a later step() call
\* before reset() changes neither the variables nor the output and reports
\* no normal step.
C7_FailedHalts ==
    [][(handleStep /\ outcome = "thrown")
          => /\ outcome' # "returned"
             /\ visualizer'.variables = visualizer.variables
             /\ visualizer'.output = visualizer.output]_ivars

\* an identifier among the tokens that is no variable
Unknown(vars, tokens) == \E k \in 1..Len(tokens) : tokens[k] = "zz" /\ ~Has(vars, "zz")
\* the next step evaluates an identifier that is not in the variable table
EvaluatesUnknown(S) ==
    /\ AtNode(S)
    /\ LET node == NextNode(S)
       IN  CASE node.type = "stmt" ->
                  \/ AssignMatch(node.code) /\ Unknown(S.variables, <<node.code[3]>>)
                  \/ ~DeclMatch(node.code) /\ ~AssignMatch(node.code)
                        /\ CoutMatch(node.code) /\ Unknown(S.variables, CoutExpr(node.code))
             [] node.type = "for" ->
                  ForHeader(node.code).ok /\ Unknown(S.variables, ForHeader(node.code).start)
             [] node.type = "if" ->
                  ParenCond(node.code, "if").ok
                     /\ Unknown(S.variables, ParenCond(node.code, "if").cond)
             [] OTHER -> FALSE

\* C8 (as claimed): a step that evaluates an identifier that is not in the
\* variable table raises an error.
C8_UnknownRaises ==
    [][(handleStep /\ EvaluatesUnknown(visualizer)) => outcome' = "thrown"]_ivars

\* q is the floor of x / d
IsFloor(q, x, d) ==
    IF d > 0 THEN q * d <= x /\ x < (q + 1) * d ELSE q * d >= x /\ x > (q + 1) * d
\* the next step is `x /= d;` for a declared integer x and an integer d (the
\* integer zero is 0 or -0, which JavaScript compares, prints and serializes
\* as 0); the values of x and d
DivideNext(S) ==
    /\ AtStmt(S)
    /\ AssignMatch(NextNode(S).code)
    /\ NextNode(S).code[2] = "/="
    /\ Has(S.variables, NextNode(S).code[1])
    /\ IsFinite(S.variables[NextNode(S).code[1]])
    /\ Has(S.variables, NextNode(S).code[3]) => IsFinite(S.variables[NextNode(S).code[3]])
Dividend(S) == S.variables[NextNode(S).code[1]].n
Divisor(S) ==
    IF Has(S.variables, NextNode(S).code[3])
    THEN S.variables[NextNode(S).code[3]].n
    ELSE LitVal[NextNode(S).code[3]]

C10_DivisionByZeroRaises ==
    [][(handleStep /\ DivideNext(visualizer) /\ Divisor(visualizer) = 0)
          => /\ outcome' = "thrown"
             /\ visualizer'.variables = visualizer.variables]_ivars

\* the interpreter after n more executeStep calls
RECURSIVE StepsOn(_, _)
StepsOn(S, n) ==
    IF n = 0 THEN S
    ELSE CHOOSE out \in {StepsOn(r.S, n - 1) : r \in {executeStep(S)}} : TRUE

\* C26 (as claimed): for README example 3 the run of getAllSteps at compile
\* time, and that of the continue handler, comes to its end.
C26_WhileTerminates ==
    (code = Example3 /\ present) => (outcome # "never" /\ server # "hung")
\* in example 3, four executeStep calls after the loop was entered leave
\* the interpreter as it was: n is 5 and the loop is at its first line
C26_LoopStateRepeats ==
    \E S \in {StepsOn(parse(NewVisualizer, Example3).S, 2)} :
        /\ Top(S.stack).type = "while"
        /\ S.variables["n"] = IntV(5)
        /\ StepsOn(S, 4) = S

\* the steps of a run that executed the assignment `v op rhs`
Executions(steps, v, op, rhs) ==
    {k \in 1..Len(steps) : steps[k].description = <<v, op, rhs>>}
\* the variable table that the last step of a run reports
FinalVars(steps) == steps[Len(steps)].variables

\* C11 (as claimed): the run of `int a = 0;` and
\* `for (int i = 1; i <= 3; i++) { a += i; }`, the body statement on its own
\* line, executes the body assignment `a += i` three times, once per
\* iteration, and ends with a = 6.
C11_LoopBodyRuns ==
    (code \in ForPrograms /\ preview # <<>>)
        => /\ Cardinality(Executions(preview, "a", "+=", "i")) = 3
           /\ "a" \in DOMAIN FinalVars(preview)
           /\ FinalVars(preview)["a"] = IntV(6)

\* C12 (as claimed): with a = 5 and b = 3, the run of
\* `if (a > b) { a -= 2; } else { b /= 2; }` executes the statement of the
\* selected branch, `a -= 2`, and no statement of the other branch: a becomes
\* 3 and b stays 3.
C12_BranchExclusive ==
    (code \in IfElsePrograms /\ preview # <<>>)
        => /\ Cardinality(Executions(preview, "a", "-=", "2")) = 1
           /\ Executions(preview, "b", "/=", "2") = {}
           /\ FinalVars(preview) = [k \in {"a", "b"} |-> IntV(3)]

\* C13: reset(), which the start and stop requests call on the session's
\* visualizer in whatever state it is (not started, inside a loop frame,
\* completed, after an error), leaves the variables and the output empty and
\* the stack holding one root block frame with cursor 0 over the ast, and
\* leaves the ast as it was.
C13_ResetReinitialises ==
    [][(handleStart \/ handleStop)
          => /\ visualizer'.variables = NoVars
             /\ visualizer'.output = <<>>
             /\ Len(visualizer'.stack) = 1
             /\ visualizer'.stack[1].type = "block"
             /\ visualizer'.stack[1].root
             /\ visualizer'.stack[1].index = 0
             /\ visualizer'.ast = visualizer.ast]_ivars
\* a start request has reset a visualizer whose compile-time run stopped on
\* an error, after output had been printed
C13_Witness ==
    /\ present
    /\ code = <<Decl("a", 10), Cout(<<"\"a: \"", "<<", "a", "<<", "zz">>), Assign("a", "=", "zz")>>
    /\ preview = <<>>
    /\ Len(replies) = 1 /\ replies[1].type = "visualizationStarted"
    /\ Fresh(visualizer)
    /\ Len(visualizer.ast) = 3

\* C14 (as claimed): every step the interpreter reports, in the preview or
\* in a debugStep message, carries as its line the 1-based line of the code
\* that the step executed, a number from 1 to the number of lines.
C14_LineReported ==
    /\ \A k \in 1..Len(preview) : preview[k].currentLine \in 1..Len(code)
    /\ \A k \in 1..Len(replies) :
           replies[k].type = "debugStep" => replies[k].steps[1].currentLine \in 1..Len(code)

\* the types of the messages sent
Types(msgs) == {msgs[k].type : k \in 1..Len(msgs)}

\* C27 (as claimed): for README example 4 stepping never raises, the body
\* statements `sum += x * x;` and `x++;` are executed before the condition
\* is tested, and the body is repeated while x <= 5: a run executes the
\* first of them five times and ends with sum = 55.
C27_DoWhileRuns ==
    (code = Example4 /\ present)
        => /\ outcome # "thrown"
           /\ Types(replies) \cap {"compileError"} = {}
           /\ preview # <<>>
                  => /\ Cardinality({k \in 1..Len(preview) :
                                        Len(preview[k].description) >= 3
                                           /\ SubSeq(preview[k].description, 1, 3)
                                                  = <<"sum", "+=", "x">>}) = 5
                     /\ "sum" \in DOMAIN FinalVars(preview)
                     /\ FinalVars(preview)["sum"] = IntV(55)

\* the replies that end a request
Terminal == {"visualizationComplete", "compileError", "error"}

\* C28 (as claimed): in a session that has a visualizer, a step request that
\* returns is answered by exactly one reply (debugStep, visualizationComplete
\* or an error reply), and a continue request that returns is answered by
\* debugStep replies followed by exactly one terminal reply.
C28_ReplyProtocol ==
    [][/\ handleStep
          => /\ Len(replies') = 1
             /\ replies'[1].type \in Terminal \cup {"debugStep"}
       /\ (handleContinue /\ outcome' # "never")
          => /\ replies' # <<>>
             /\ replies'[Len(replies')].type \in Terminal
             /\ \A k \in 1..(Len(replies') - 1) : replies'[k].type = "debugStep"]_allvars

\* C29 (as claimed): isSimpleCode and isEligibleForDryRun both accept README
\* examples 3, 4 and 6 and the client's default program: once a request
\* for one of them has been answered, both predicates hold of its code and
\* no reply is dryRunNotSupported.
C29_NoFalseRejections ==
    (code \in ShippedPrograms /\ replies # <<>>)
        => /\ isSimpleCode(code)
           /\ isEligibleForDryRun(code)
           /\ Types(replies) \cap {"dryRunNotSupported"} = {}

\* C30: a step or continue request that ends with done leaves the frame
\* stack empty; once the stack is empty, a step or continue request leaves it
\* empty and the variables and the output as they are, and is
\* answered by visualizationComplete alone, carrying that output.
C30_CompletedAbsorbing ==
    [][/\ ((handleStep \/ handleContinue) /\ outcome' = "done")
          => visualizer'.stack = <<>>
       /\ (present /\ visualizer.stack = <<>> /\ (handleStep \/ handleContinue))
          => /\ visualizer'.stack = <<>>
             /\ visualizer'.variables = visualizer.variables
             /\ visualizer'.output = visualizer.output
             /\ outcome' = "done"
             /\ replies' = <<Msg("visualizationComplete", <<>>, visualizer.output)>>]_allvars
\* a finished run that printed something and was then stepped again
C30_Witness ==
    /\ present
    /\ visualizer.stack = <<>>
    /\ visualizer.output # <<>>
    /\ visualizer.variables # NoVars
    /\ outcome = "done"
    /\ replies = <<Msg("visualizationComplete", <<>>, visualizer.output)>>

\* C17 (as claimed): a compile or dryRun request whose code the eligibility
\* predicate rejects executes no interpreter step and sends no
\* visualizationReady; it is answered by an error or not-supported reply.
C17_IneligibleNotInterpreted ==
    [][((handleCompile \/ handleDryRun) /\ ~isEligibleForDryRun(code))
          => /\ visualizer' = visualizer
             /\ replies' # <<>>
             /\ Types(replies') \subseteq {"dryRunNotSupported", "compileError"}]_ivars

\* C18 (as claimed): a program that the classifier isSimpleCode rejects goes
\* through the instrumenter, the compiler and the probe log parser, and every
\* successful result of executeWithVisualization carries a trace, built from
\* the probe log of the program.
C18_SuccessHasTrace ==
    (stage \in {"returned", "answered"} /\ result.success)
        => /\ result.executionTrace \notin {Null, Undef}
           /\ result.instrumented
           /\ result.executionTrace.totalSteps = Len(parsed.steps)

\* C15 (as claimed): whatever messages connection B sends, and however they
\* interleave with A's, the visualizer of A and the replies to A's requests
\* are those of A alone on a server that never processed a message of B.
C15_SessionIsolation ==
    /\ sessions["A"].visualizer = alone.session.visualizer
    /\ sessions["A"].present = alone.session.present
    /\ sessions["A"].replies = alone.session.replies

\* C16 (as claimed): once the connection has closed, the session is not in
\* the sessions table and no gdb process started for it is running, however
\* the close interleaves with the callbacks of a gdbDebug request.
C16_SessionReclaimed ==
    ~connected => (~listed /\ \A n \in Debugs : ~Alive(n))

(***************************************************************************)
(* Properties of the probe log parser.                                    *)
(***************************************************************************)
EmptyObject == [name \in {} |-> JUndefined]
HasSnapshot(step) == "variables" \in DOMAIN step
IsVariableStep(step) ==
    step.type \in {"variable_declaration", "variable_assignment", "trace_var"}
\* the snapshot of the last step before the k-th that carries one
PreviousSnapshot(steps, k) ==
    LET js == {j \in 1..(k - 1) : HasSnapshot(steps[j])}
    IN  IF js = {} THEN EmptyObject
        ELSE steps[CHOOSE j \in js : \A i \in js : i <= j].variables
Untimed(steps) == [k \in 1..Len(steps) |-> [steps[k] EXCEPT !.timestamp = 0]]
IsPrefixOf(s, t) == Len(s) <= Len(t) /\ SubSeq(t, 1, Len(s)) = s
\* what parseLogs returns for the whole log of the run
WholeParse == parseLogs(NewLogParser, source, 0).parsed

\* the place of the n-th ':' of a line, 0 if there is none
RECURSIVE NthColon(_, _)
NthColon(line, n) ==
    IF n = 0 THEN 0
    ELSE CHOOSE at \in {IF c = 0 /\ n > 1 THEN 0 ELSE IndexOf(line, ":", c + 1) :
                           c \in {NthColon(line, n - 1)}} : TRUE
IsProbe(line) == Tok(line, 1) = "LOG" /\ Tok(line, 2) = ":"
\* the steps made by handing processLogEntry, for every probe line, the type
\* between the second and third ':' and the object that the whole text after
\* the third ':' denotes
RECURSIVE Decoded(_, _, _)
Decoded(P, lines, k) ==
    IF k > Len(lines)
    THEN P.executionSteps
    ELSE IF ~IsProbe(lines[k]) \/ NthColon(lines[k], 3) = 0
    THEN Decoded(P, lines, k + 1)
    ELSE CHOOSE out \in
            {Decoded(r.P, lines, k + 1) :
                r \in {TryEntry(P, SubSeq(lines[k], NthColon(lines[k], 2) + 1,
                                          NthColon(lines[k], 3) - 1),
                                JsonParse(SubSeq(lines[k], NthColon(lines[k], 3) + 1,
                                                 Len(lines[k]))), 0)}} : TRUE

\* C19: the payload of a probe line is the whole text after its third ':',
\* further ':' characters included: the steps of a log are the steps made
\* from the objects that those texts denote, field for field; the record
\* with the condition "a:b" gives a step whose condition is "a:b".
C19_PayloadReassembled ==
    [][(stderr = source /\ ParseLogs) =>
          /\ ~raised'
          /\ Untimed(parsed'.steps) =
                 Untimed(Decoded(resetLogParser(NewLogParser), Split(source, NL), 1))
          /\ \A k \in 1..Len(parsed'.steps) :
                 (parsed'.steps[k].type = "if_condition")
                    => parsed'.steps[k].condition = JStr(<<"a", ":", "b">>)]_pvars
C19_Witness ==
    /\ now >= 1
    /\ ~raised
    /\ stderr = source
    /\ Len(Split(Split(source, NL)[1], ":")) > 4
    /\ Len(parsed.steps) = 2
    /\ parsed.steps[1].type = "if_condition"
    /\ parsed.steps[1].condition = JStr(<<"a", ":", "b">>)
    /\ parsed.steps[1].line = JNum(2)

\* the lines of a text, each ended by a line terminator
Lines(text) ==
    IF text # <<>> /\ text[Len(text)] = NL
    THEN Split(SubSeq(text, 1, Len(text) - 1), NL)
    ELSE Split(text, NL)
NotProbe(line) == ~IsProbe(line)

\* C20 (as claimed): the output that parseLogs returns is the lines of the
\* input that do not start with `LOG:`, each as it is (blanks at its ends
\* kept, lines of blanks kept), in their order, joined by line terminators.
C20_RawOutput ==
    (stage \in {"returned", "answered"} /\ result.success /\ result.instrumented)
        => parsed.output = Join(SelectSeq(Lines(stderr), NotProbe), NL)

\* the instrumented code without the helper lines, and its probes
NotHelper(line) == \A k \in 1..Len(Helpers) : line # Helpers[k]
IsMacro(line) == Tok(line, 1) = "TRACE_VAR" /\ Tok(line, 2) = "("
NotMacro(line) == ~IsMacro(line)
Instrumented == SelectSeq(result.instrumentedCode, NotHelper)
\* the line of the submitted text that stands before line j of the
\* instrumented code
LineBefore(j) == (j - 1) - Cardinality({i \in 1..(j - 1) : IsMacro(Instrumented[i])})

C24_StringsRejoined ==
    (stage \in {"returned", "answered"} /\ Quotes(Join(submitted, NL)) % 2 = 0)
        => /\ \A k \in 1..Len(Split(sanitizeCode(Join(submitted, NL)), NL)) :
                  Quotes(Split(sanitizeCode(Join(submitted, NL)), NL)[k]) % 2 = 0
           /\ (result.success /\ ~result.instrumented)
                  => \A k \in 1..Len(result.instrumentedCode) :
                         Quotes(result.instrumentedCode[k]) % 2 = 0

\* C25 (as claimed): once the program was started, the request is
\* eventually answered, on each path and also when the program never exits.
C25_EventuallyAnswered == (child = "running") ~> answered
\* on the paths of DockerManager the request is answered
C25_DockerManagerAnswers ==
    (child = "running" /\ path \in {"runLocally", "executeWithTimeout"}) ~> answered

\* C22 (as claimed): the k-th step of what parseLogs returns has id k and
\* the k-th step of the execution trace has stepNumber k, whatever lines
\* were skipped between the records.
C22_StepNumbering ==
    /\ \A k \in 1..Len(parsed.steps) : parsed.steps[k].id = k
    /\ (stage \in {"returned", "answered"} /\ result.success /\ result.instrumented)
           => \A k \in 1..Len(result.executionTrace.steps) :
                  result.executionTrace.steps[k].stepNumber = k
C22_Witness ==
    /\ stage = "returned" /\ result.success /\ result.instrumented
    /\ stderr = SkippingLog
    /\ Len(parsed.steps) = 2
    /\ parsed.steps[2].type = "trace_var" /\ parsed.steps[2].id = 2
    /\ Len(result.executionTrace.steps) = 2
    /\ result.executionTrace.steps[2].stepNumber = 2

\* the steps at which the variable has a value, in order
Seen(steps, name) ==
    {k \in 1..Len(steps) : HasSnapshot(steps[k]) /\ name \in DOMAIN steps[k].variables}
FirstSeen(steps, name) == CHOOSE k \in Seen(steps, name) : \A j \in Seen(steps, name) : k <= j
LastSeen(steps, name) == CHOOSE k \in Seen(steps, name) : \A j \in Seen(steps, name) : j <= k

\* C21 (as claimed): variableHistory names the variables in the order they
\* were first seen, and the history of each variable starts with the first
\* value it took in the run and ends with its last.
C21_VariableHistory ==
    ~raised =>
        \A k \in 1..Len(parsed.variableHistory) :
            \E name \in {ToText(parsed.variableHistory[k].name)} :
                /\ Seen(parsed.steps, name) # {}
                /\ parsed.variableHistory[k].initialValue
                       = parsed.steps[FirstSeen(parsed.steps, name)].variables[name]
                /\ parsed.variableHistory[k].currentValue
                       = parsed.steps[LastSeen(parsed.steps, name)].variables[name]
                /\ \A j \in 1..(k - 1) :
                       FirstSeen(parsed.steps, ToText(parsed.variableHistory[j].name))
                          < FirstSeen(parsed.steps, name)

\* C2 (as claimed): the snapshot of every step made from a VAR_DECL,
\* VAR_ASSIGN or TRACE_VAR record is the snapshot of the previous
\* snapshot-bearing step with the record's name mapped to the record's value.
C2_ParserStateDelta ==
    [][ParseLogs =>
          \A k \in 1..Len(parsed'.steps) :
             IsVariableStep(parsed'.steps[k]) =>
                /\ HasSnapshot(parsed'.steps[k])
                /\ parsed'.steps[k].variables =
                       (ToText(parsed'.steps[k].variable.name)
                           :> parsed'.steps[k].variable.value)
                          @@ PreviousSnapshot(parsed'.steps, k)]_pvars

\* C3 (as claimed): every step of parseLogs carries a snapshot of the
\* variable table, and the snapshot of a step that is not made from a
\* variable record is that of the step before it.
C3_EveryStepSnapshot ==
    [][ParseLogs =>
          /\ \A k \in 1..Len(parsed'.steps) : HasSnapshot(parsed'.steps[k])
          /\ \A k \in 1..Len(parsed'.steps) :
                ~IsVariableStep(parsed'.steps[k]) =>
                   parsed'.steps[k].variables = PreviousSnapshot(parsed'.steps, k)]_pvars

\* C5: parseLogs of a non-empty character prefix of a valid probe log does
\* not raise, and its steps, timestamps apart, are the first steps of
\* parseLogs of the whole log.
C5_TruncationResilience ==
    [][(stderr \in Prefixes(source) /\ ParseLogs) =>
          /\ ~raised'
          /\ IsPrefixOf(Untimed(parsed'.steps), Untimed(WholeParse.steps))]_pvars
\* the log was cut inside the payload of its second record, after a first
\* record that gave a step
C5_Witness ==
    /\ now >= 1
    /\ ~raised
    /\ stderr \in Prefixes(source) \ {source, SubSeq(source, 1, Len(source) - 1)}
    /\ Len(Split(stderr, NL)) = 2
    /\ Len(Split(Split(stderr, NL)[2], ":")) >= 4
    /\ Len(parsed.steps) = 1
    /\ Len(WholeParse.steps) = 2

\* C6: a probe line of fewer than four fields, or whose payload is not valid
\* JSON, gives no step and no error, and parseLogs of a log with such a line
\* inserted gives the steps, the variable table and the call stack of the log
\* without it.
C6_MalformedSkipped ==
    [][(stderr \in Insertions(source) /\ ParseLogs) =>
          /\ ~raised'
          /\ \E whole \in {WholeParse} :
                /\ Untimed(parsed'.steps) = Untimed(whole.steps)
                /\ parsed'.variables = whole.variables
                /\ parsed'.callStack = whole.callStack]_pvars
\* a line with a payload that is not JSON between two lines that give steps
C6_Witness ==
    /\ now >= 1
    /\ ~raised
    /\ stderr \in Insertions(source)
    /\ Len(Split(stderr, NL)) = 4
    /\ Len(Split(Split(stderr, NL)[2], ":")) >= 4
    /\ Split(stderr, NL)[2] \in BadLines
    /\ Len(parsed.steps) = 2
    /\ [k \in 1..2 |-> parsed.steps[k].id] = <<1, 2>>

\* the function names of the function_enter steps, in order
EnterNames(steps) ==
    LET enters == SelectSeq(steps, LAMBDA st : st.type = "function_enter")
    IN  [k \in 1..Len(enters) |-> enters[k].function.name]
\* the parser after the first k lines of the captured log, in a pass that
\* starts from the parser as it is
AfterPrefix(k) ==
    ParseLines(resetLogParser(logParser), SubSeq(Split(stderr, NL), 1, k), 1, now + 1).P

\* C31: the call stack of the parser, and of the object the last parseLogs
\* call returned, holds the function names of the function_enter steps in
\* order; after each further line of a pass the call stack is the one
\* before it or that one with a name appended, and before the first line it
\* is empty.
C31_CallStackGrows ==
    /\ logParser.callStack = EnterNames(logParser.executionSteps)
    /\ ~raised => parsed.callStack = EnterNames(parsed.steps)
    /\ AfterPrefix(0).callStack = <<>>
    /\ \A k \in 1..Len(Split(stderr, NL)) :
           \E before \in {AfterPrefix(k - 1)} : \E after \in {AfterPrefix(k)} :
               /\ IsPrefixOf(before.callStack, after.callStack)
               /\ after.callStack = EnterNames(after.executionSteps)
\* a second pass over a log that enters two different functions
C31_Witness ==
    /\ now = 2
    /\ ~raised
    /\ Len(parsed.callStack) = 2
    /\ parsed.callStack[1] # parsed.callStack[2]
    /\ Len(parsed.steps) = 2

\* the lines of the submitted text that stand before line j of the text
\* instrumentWithAST returned
OriginalBefore(j) ==
    (j - 1) - Cardinality({i \in 1..(j - 1) : IsMacro(instrumentedLines[i])})
\* the probes that stand after line n of the submitted text and before
\* line n + 1, and how many of them are the macro m
ProbesAfter(n, m) ==
    Cardinality({j \in 1..Len(instrumentedLines) :
                    /\ instrumentedLines[j] = m
                    /\ OriginalBefore(j) = n})
\* the insertions scheduled for nodes that end on line n, and how many of
\* them have the macro m
ScheduledAt(n, m) ==
    Cardinality({k \in 1..Len(tree) : tree[k].endRow + 1 = n /\ Macro(tree[k]) = m})

\* C32: the text instrumentWithAST returns, probes deleted, is the submitted
\* text line for line, and the probes between line n and line n + 1 of the
\* submitted text are those scheduled for the nodes that end on line n,
\* each as often as it was scheduled.
C32_ProbePlacement ==
    instrumentedLines # <<>>
        => /\ SelectSeq(instrumentedLines, NotMacro) = submitted
           /\ \A n \in 0..Len(submitted) :
                  \A m \in {Macro(nd) : nd \in NodesOf(submitted)} :
                      ProbesAfter(n, m) = ScheduledAt(n, m)
\* three insertions, two of them for one line, pushed for a later line first
C32_Witness ==
    /\ instrumentedLines # <<>>
    /\ Len(submitted) = 3
    /\ Len(tree) = 3
    /\ tree[1].endRow = 2 /\ tree[2].endRow = 0 /\ tree[3].endRow = 2
    /\ tree[1].name # tree[3].name
    /\ Len(instrumentedLines) = 6

\* the output fields of the debugStep messages of msgs, one after the other
RECURSIVE Outputs(_)
Outputs(msgs) ==
    IF msgs = <<>> THEN <<>>
    ELSE (IF Head(msgs).type = "debugStep" THEN Head(msgs).steps[1].output ELSE <<>>)
            \o Outputs(Tail(msgs))

\* C33: a step or continue request appends to the interpreter's output the
\* output fields of the debugStep replies it sends, in order, and nothing
\* else; start, stop and a compile or dryRun that sends a preview leave the
\* output empty; the
\* finalOutput of a visualizationComplete reply is the output accumulated,
\* which after a continue request on a fresh run is the concatenation of the
\* output fields of the debugStep replies before it.
C33_OutputAccumulates ==
    [][/\ (handleStep \/ handleContinue)
          => /\ visualizer'.output = visualizer.output \o Outputs(replies')
             /\ \A k \in 1..Len(replies') :
                    replies'[k].type = "visualizationComplete"
                       => replies'[k].finalOutput = visualizer'.output
       /\ (handleStart \/ handleStop) => visualizer'.output = <<>>
       /\ ((handleCompile \/ handleDryRun) /\ "visualizationReady" \in Types(replies'))
          => visualizer'.output = <<>>
       /\ (handleContinue /\ visualizer.output = <<>> /\ outcome' = "done")
          => replies'[Len(replies')].finalOutput
                = Outputs(SubSeq(replies', 1, Len(replies') - 1))]_allvars
\* a continue request answered by two debugStep replies with output and
\* then visualizationComplete
C33_Witness ==
    /\ present
    /\ outcome = "done"
    /\ Len(replies) >= 3
    /\ replies[Len(replies)].type = "visualizationComplete"
    /\ Cardinality({k \in 1..(Len(replies) - 1) :
                       replies[k].type = "debugStep"
                          /\ replies[k].steps[1].output # <<>>}) >= 2
    /\ replies[Len(replies)].finalOutput = Outputs(SubSeq(replies, 1, Len(replies) - 1))

\* C34 (as claimed): a step request whose executeStep call raises leaves the
\* variables, the output and the frame stack, cursors included, as they
\* were before the call.
C34_StepAtomicOnError ==
    [][(handleStep /\ outcome' = "thrown") => visualizer' = visualizer]_allvars

\* what the call of request c returns when it is the only call the pipeline
\* ever gets, its program writing the same log and ending at the same time
Own(c) ==
    LET q == requests[c]
        text == IF q.path = "executeWithVisualization"
                THEN sanitizeCode(Join(q.code, NL)) ELSE Join(q.code, NL)
        complete == getCompleteInstrumentedCode(instrumentWithAST(text))
        data == parseLogs(NewLogParser, q.log, q.resumedAt).parsed
    IN  IF q.path = "compileAndRun"
        THEN [success |-> TRUE, path |-> q.path, executionData |-> data,
              instrumentedCode |-> complete]
        ELSE IF isSimpleCode(Split(text, NL))
        THEN [success |-> TRUE, path |-> q.path,
              executionTrace |-> createExecutionTrace(data, 0),
              instrumentedCode |-> complete]
        ELSE [success |-> TRUE, path |-> q.path, executionTrace |-> Null,
              instrumentedCode |-> Split(text, NL)]

\* C35: what a call returned, read at any time after its return, and the
\* response sent for it, are what the call returns when no other request
\* uses the pipeline: the instrumented code of the request's own source and
\* the steps, variables, call stack and metrics of its own probe log.
C35_SharedPipelineIsolation ==
    \A c \in DOMAIN requests :
        (requests[c].pc \in {"returned", "answered"} /\ requests[c].result.success)
            => /\ Serialised(heap, requests[c].result) = Own(c)
               /\ requests[c].pc = "answered" => requests[c].body = Own(c)
\* two requests of different sources and logs: the second is called while
\* the first awaits its program, and the first returns, its log parsed,
\* between the return of the second and the response to it
C35_Witness ==
    /\ DOMAIN requests = Callers
    /\ requests[1].pc = "answered" /\ requests[2].pc = "answered"
    /\ requests[1].result.success /\ requests[2].result.success
    /\ requests[1].instrumented /\ requests[2].instrumented
    /\ requests[1].code # requests[2].code
    /\ requests[1].calledAt < requests[2].calledAt
    /\ requests[2].calledAt < requests[2].resumedAt
    /\ requests[2].resumedAt < requests[1].resumedAt
    /\ requests[1].resumedAt < requests[2].sentAt
    /\ Len(Own(1).instrumentedCode) # Len(Own(2).instrumentedCode)
    /\ requests[1].log = LogText(<<FunctionEnter("main", 1), VarDecl("a", 1, 1)>>)
    /\ requests[2].log = LogText(<<FunctionEnter("f", 2), FunctionEnter("main", 1)>>)

\* every frame of the stack is at the end of its body
AllAtEnd(S) == \A k \in 1..Len(S.stack) : S.stack[k].index >= BodyLen(S, S.stack[k])

\* C36: an executeStep call on the session's visualizer that returns reports
\* done exactly when every frame was at the end of its body, so that it ran
\* no statement: it then carries no description and no output and leaves
\* the variables and the output as they were; a call that ran a statement
\* leaves the root frame at the bottom of the stack and reports done false.
C36_NoStepLost ==
    present
        => \E r \in {executeStep(visualizer)} :
               ~r.thrown
                  => /\ r.result.done <=> AllAtEnd(visualizer)
                     /\ r.result.done
                           => /\ r.result.description = <<>>
                              /\ r.result.output = <<>>
                              /\ r.S.variables = visualizer.variables
                              /\ r.S.output = visualizer.output
                              /\ r.S.stack = <<>>
                     /\ ~r.result.done
                           => /\ r.S.stack # <<>>
                              /\ r.S.stack[1].root
\* the step that ran the last statement of a program was sent as a debugStep
C36_Witness ==
    /\ present
    /\ outcome = "returned"
    /\ Len(replies) = 1
    /\ replies[1].type = "debugStep"
    /\ replies[1].steps[1].description # <<>>
    /\ visualizer.stack # <<>>
    /\ AllAtEnd(visualizer)
    /\ Len(visualizer.ast) >= 2

\* the types of the messages of msgs, in order
TypeSeq(msgs) == [k \in 1..Len(msgs) |-> msgs[k].type]

\* C37 (as claimed): a compile request that returns is answered by
\* compileSuccess and then visualizationReady, or by compileError alone; and
\* when it is answered by compileError the session's visualizer is the one
\* it had before, or one on which no step has run.
C37_CompileOutcomeExclusive ==
    [][(handleCompile /\ outcome' # "never")
          => /\ TypeSeq(replies') \in {<<"compileSuccess", "visualizationReady">>,
                                       <<"compileError">>}
             /\ "compileError" \in Types(replies')
                   => visualizer' = visualizer \/ Fresh(visualizer')]_allvars

\* the value that the declarations and assignments up to step n give the
\* variable name
ValueAsOf(steps, name, n) ==
    LET last == CHOOSE m \in 1..n :
                    /\ steps[m].type \in {"variable_declaration", "variable_assignment"}
                    /\ steps[m].variable.name = name
                    /\ \A j \in (m + 1)..n :
                           ~(steps[j].type \in {"variable_declaration", "variable_assignment"}
                               /\ steps[j].variable.name = name)
    IN  steps[last].variable.value

\* C38 (as claimed): in the variableStates of the trace a request returns,
\* the variable of each entry has the value its step gave it, and every
\* variable of its allVariables has the value it had as of that step.
C38_EntriesAreSnapshots ==
    (stage \in {"returned", "answered"} /\ result.success /\ result.instrumented)
        => \E trace \in {result.executionTrace} :
               \A k \in 1..Len(trace.variableStates) :
                   \E e \in {trace.variableStates[k]} :
                       /\ e.variable.value = trace.steps[e.stepNumber].variable.value
                       /\ \A j \in 1..Len(e.allVariables) :
                              e.allVariables[j].info.value
                                 = ValueAsOf(trace.steps, e.allVariables[j].key, e.stepNumber)

\* C39 (as claimed): stepHistory holds every gdbStep received in the debug
\* session, in the order they came, and currentStepIndex is -1 or the place
\* of one of its elements.
C39_StepHistoryInvariant ==
    /\ stepHistory = arrived
    /\ currentStepIndex = -1
         \/ (currentStepIndex >= 0 /\ currentStepIndex < Len(stepHistory))

====
